---- MODULE Spec2Model ----
(***************************************************************************)
(* Storage pipeline of DailyTechAzureFunction (blueprints/arxiv).          *)
(*                                                                         *)
(* The orchestrator (functions.py arxiv_orchestrator) calls four           *)
(* activities in turn: fetch, store_raw, parse_and_store, store_metadata.  *)
(* store_raw and store_metadata go through the synchronous gateway         *)
(* (shared/storage_utils.py upload_blob_with_container_creation);          *)
(* parse_and_store normalizes the feed into records and hands them to the  *)
(* bounded-concurrency batch upload (batch_upload.py), which goes through  *)
(* the asynchronous gateway (upload_blob_async).                           *)
(*                                                                         *)
(* Two HTTP endpoints stand beside the pipeline: http_trigger_arxiv_rss    *)
(* starts an orchestration, and simplify_article_description               *)
(* (blueprints/abstractParse) reads a stored record and has a language     *)
(* model rewrite its description.                                          *)
(*                                                                         *)
(* Spec     : the batch handed any list of records, then store_metadata.   *)
(* OrchSpec : one whole orchestration, from the fetch on.                  *)
(* NormSpec : the normalizer handed any feed document.                     *)
(* HttpSpec : the two endpoints serving a bounded number of requests.      *)
(* The storage backend, the feed's server, the durable-functions client    *)
(* and the language model are the environment: every call returns one of   *)
(* the responses the service can give in its current state.                *)
(***************************************************************************)
EXTENDS Integers, Sequences, FiniteSets, TLC

\* ---------------------------------------------------------------- bounds
MaxRecords == 3
MaxConcurrency == 2
MaxEntries == 2
MaxDetailed == 1
MaxRequests == 2

\* ------------------------------------------------------- program constants
container_name == "arxiv-data"
\* run_batch_upload_sync(..., max_concurrency=20)
ParseConcurrency == 20
EmptyStr == <<>>
Categories == {"cs"}
ProcessDates == {"d1"}

\* An element of articles_data is the tuple (article_metadata, identifier)
\* built by parse_and_store_articles; a tuple of any other length cannot be
\* destructured by upload_single_article.  encodable = FALSE stands for a
\* metadata dict holding a value json.dumps rejects.
Meta(id, enc) == [identifier |-> id, title |-> "t", encodable |-> enc]
ArticleSet ==
    { <<Meta("a", TRUE), "a">>,
      <<Meta("b", TRUE), "b">>,
      <<Meta("a", FALSE), "a">>,
      <<"not-a-pair">> }

VARIABLES
    category,           \* input: category
    process_date,       \* input: process_date
    articles_data,      \* input: list handed to batch_upload_articles_async
    max_concurrency,    \* input: max_concurrency
    phase,              \* activity of the run that is executing
    sync_st,            \* position inside upload_blob_with_container_creation
    sync_log,           \* backend calls of the synchronous put, with responses
    metadata_url,       \* result of store_metadata_activity
    container_exists,   \* backend: the container exists
    blobs,              \* backend: blob name -> stored content
    batch_pc,           \* position of batch_upload_articles_async
    client,             \* the batch's AsyncBlobServiceClient
    permits,            \* asyncio.Semaphore._value
    st,                 \* per record: position of upload_with_semaphore
    log,                \* per record: backend calls of its put, with responses
    entered,            \* per record: times the semaphore was acquired
    put_calls,          \* per record: times upload_blob_async was invoked
    results,            \* per record: value its task returned to gather
    processed_results,  \* processed_results of the batch
    returned,           \* list returned by the batch call
    fetch_resp,         \* how the HTTP request of fetch_arxiv_rss ended
    rss_content,        \* orchestrator: rss_content
    raw_storage_url,    \* orchestrator: raw_storage_result
    orch_result,        \* value the orchestrator returned
    started,            \* activities the orchestrator has called, in order
    http_pc,            \* position of the HTTP handler that is executing
    request,            \* the HTTP request being handled (or the last one)
    response,           \* the HttpResponse the handler returned
    article_metadata,   \* simplify endpoint: article_metadata
    start_calls,        \* calls of client.start_new, with their outcome
    model_calls         \* calls of chat.completions.create, with their outcome

vars == <<category, process_date, articles_data, max_concurrency, phase,
          sync_st, sync_log, metadata_url, container_exists,
          blobs, batch_pc, client, permits, st, log, entered, put_calls,
          results, processed_results, returned, fetch_resp, rss_content,
          raw_storage_url, orch_result, started, http_pc, request,
          response, article_metadata, start_calls, model_calls>>

httpVars == <<http_pc, request, response, article_metadata, start_calls,
              model_calls>>
orchVars == <<fetch_resp, rss_content, raw_storage_url, orch_result, started>>
finishVars == <<phase, metadata_url, raw_storage_url, orch_result>>
inputVars == <<category, process_date, articles_data, max_concurrency>>
syncVars == <<sync_st, sync_log, metadata_url>>
batchVars == <<batch_pc, client, permits, st, log, entered, put_calls,
               results, processed_results, returned>>

Records == 1..Len(articles_data)
NoResult == [status |-> "none"]
\* None, which json.dumps writes as null
NoneValue == "null"

\* The HTTP handlers before any request has arrived.
NoRequest == [endpoint |-> "none", id |-> 0, valid |-> FALSE, json |-> <<>>]
NoResponse == [status_code |-> 0]
NoMetadata == [none |-> TRUE]
HttpIdle ==
    /\ http_pc = "idle"
    /\ request = NoRequest
    /\ response = NoResponse
    /\ article_metadata = NoMetadata
    /\ start_calls = <<>>
    /\ model_calls = <<>>

\* A feed document as the text the HTTP response carries: whether it is
\* the empty string, whether its XML is well-formed, and the entries a
\* parser can read out of it.
Document(empty, malformed, entries) ==
    [empty |-> empty, malformed |-> malformed, entries |-> entries]
\* the empty string
NoDocument == Document(TRUE, TRUE, <<>>)

\* ------------------------------------------------------------ pure helpers
SeqsUpTo(S, n) == UNION { [1..k -> S] : k \in 0..n }

\* The f-strings that name the blobs.
\* (variant: the process date is left out of the article path)
ArticleBlobNameNoDate(cat, date, identifier) ==
    cat \o "/articles/" \o identifier \o ".json"
ArticleBlobName(cat, date, identifier) ==
    cat \o "/ProcessDate=" \o date \o "/articles/" \o identifier \o ".json"
RawBlobName(cat, date) == cat \o "/ProcessDate=" \o date \o "/rss_raw.xml"
MetaBlobName(cat, date) == cat \o "/ProcessDate=" \o date \o "/meta.json"
BlobUrl(container, blob_name) == <<container, blob_name>>
JsonDumps(metadata) == <<"json", metadata>>

CanDestructure(article_data) == Len(article_data) = 2

\* (variant: a serializer that accepts every value)
JsonDumpsNeverFails(metadata) == FALSE
JsonDumpsFails(metadata) == ~metadata.encodable

\* (variant: the location is left out of a success)
SuccessOutcomeNoUrl(identifier, url) ==
    [identifier |-> identifier, url |-> EmptyStr, status |-> "success"]
\* (variant: something after the write fails and the upload is reported as
\* an error)
SuccessOutcomeLateError(identifier, url) ==
    [identifier |-> identifier, url |-> EmptyStr, status |-> "error",
     error |-> "late failure"]
SuccessOutcome(identifier, url) ==
    [identifier |-> identifier, url |-> url, status |-> "success"]
\* (variant: every failure is reported under "unknown")
ErrorOutcomeUnknown(identifier, e) ==
    [identifier |-> "unknown", url |-> EmptyStr, status |-> "error", error |-> e]
ErrorOutcome(identifier, e) ==
    [identifier |-> identifier, url |-> EmptyStr, status |-> "error", error |-> e]

\* ------------------------------------------------------------ the backend
WriteResponses ==
    IF container_exists THEN {"ok", "Unavailable"}
                        ELSE {"ContainerNotFound", "Unavailable"}
CreateResponses ==
    IF container_exists THEN {"ContainerAlreadyExists", "Unavailable"}
                        ELSE {"ok", "Unavailable"}
StoreBlob(blob_name, content) ==
    [k \in DOMAIN blobs \cup {blob_name} |->
        IF k = blob_name THEN content ELSE blobs[k]]

\* (variant: upload_blob called without overwrite)
OverwriteOff == FALSE
\* upload_blob(content, overwrite=True)
Overwrite == TRUE

\* what upload_blob can answer: without overwrite the service refuses a
\* blob name that is already taken
UploadBlobResponses(blob_name, overwrite) ==
    IF container_exists /\ ~overwrite /\ blob_name \in DOMAIN blobs
    THEN {"BlobAlreadyExists", "Unavailable"}
    ELSE WriteResponses

\* What an earlier run of the same category and date may have left in the
\* container: an older version of article "a".
EarlierContent ==
    JsonDumps([identifier |-> "a", title |-> "earlier", link |-> "",
               description |-> "", creator |-> NoneValue, doi |-> NoneValue,
               encodable |-> TRUE])
InitialBlobs(cat, date, exists) ==
    IF exists
    THEN { <<>>, [k \in {ArticleBlobName(cat, date, "a")} |-> EarlierContent] }
    ELSE { <<>> }

\* (variant: every failed write is taken for a missing container)
IsAnyFailure(resp) == resp # "ok"
\* "The specified container does not exist" in str(upload_error)
IsContainerMissing(resp) == resp = "ContainerNotFound"

Init ==
    /\ category \in Categories
    /\ process_date \in ProcessDates
    /\ articles_data \in SeqsUpTo(ArticleSet, MaxRecords)
    /\ max_concurrency \in -1..MaxConcurrency
    /\ phase = "parse_and_store"
    /\ sync_st = "idle"
    /\ sync_log = <<>>
    /\ metadata_url = EmptyStr
    /\ container_exists \in BOOLEAN
    /\ blobs \in InitialBlobs(category, process_date, container_exists)
    /\ batch_pc = "idle"
    /\ client = "none"
    /\ permits = 0
    /\ st = [i \in Records |-> "pending"]
    /\ log = [i \in Records |-> <<>>]
    /\ entered = [i \in Records |-> 0]
    /\ put_calls = [i \in Records |-> 0]
    /\ results = [i \in Records |-> NoResult]
    /\ processed_results = <<>>
    /\ returned = <<>>
    /\ fetch_resp = "none"
    /\ rss_content = NoDocument
    /\ raw_storage_url = EmptyStr
    /\ orch_result = NoResult
    /\ started = <<>>
    /\ HttpIdle

\* ------------------------------------------- the synchronous activity
SyncBlobName ==
    IF phase = "store_raw"
    THEN RawBlobName(category, process_date)
    ELSE MetaBlobName(category, process_date)

\* container_name of store_raw_rss_content and of store_metadata
raw_container_name == "arxiv-data"
meta_container_name == "arxiv-data"
SyncContainer ==
    IF phase = "store_raw" THEN raw_container_name ELSE meta_container_name

\* len(article_urls) if article_urls else 0
ArticleCount(article_urls) == Len(article_urls)

\* the metadata document of store_metadata (processed_at left out)
SyncContent ==
    IF phase = "store_raw"
    THEN <<"text", rss_content>>
    ELSE JsonDumps([category |-> category, process_date |-> process_date,
                    total_articles |-> ArticleCount(returned)])

\* (variant: the orchestrator calls store_metadata right after store_raw)
NextPhaseSkipParse(p) ==
    CASE p = "fetch" -> "store_raw"
      [] p = "store_raw" -> "store_metadata"
      [] p = "parse_and_store" -> "store_metadata"
      [] p = "store_metadata" -> "finished"
\* the order of the orchestrator's yields
NextPhase(p) ==
    CASE p = "fetch" -> "store_raw"
      [] p = "store_raw" -> "parse_and_store"
      [] p = "parse_and_store" -> "store_metadata"
      [] p = "store_metadata" -> "finished"

\* (variant: a run with a failed store is reported as an error)
OrchSuccessOnlyComplete(articles_stored, raw_url, meta_url) ==
    IF raw_url = EmptyStr \/ meta_url = EmptyStr
    THEN [status |-> "error", message |-> "Error in orchestrator"]
    ELSE [status |-> "success", articles_stored |-> articles_stored,
          raw_storage_url |-> raw_url, metadata_url |-> meta_url]
\* the dict the orchestrator returns after step 4
OrchSuccess(articles_stored, raw_url, meta_url) ==
    [status |-> "success", articles_stored |-> articles_stored,
     raw_storage_url |-> raw_url, metadata_url |-> meta_url]
\* the dict the orchestrator returns when it gives up
OrchError(message) == [status |-> "error", message |-> message]

\* The activity returns url ("" when the put raised) to the orchestrator:
\* after store_raw the orchestrator goes on to parse_and_store, after
\* store_metadata it returns its result.
SyncFinish(url) ==
    /\ sync_st' = "idle"
    /\ IF phase = "store_raw"
       THEN /\ raw_storage_url' = url
            /\ phase' = NextPhase(phase)
            /\ UNCHANGED <<metadata_url, orch_result>>
       ELSE /\ metadata_url' = url
            /\ phase' = NextPhase(phase)
            /\ orch_result' =
                  OrchSuccess(ArticleCount(returned), raw_storage_url, url)
            /\ UNCHANGED raw_storage_url

SyncLogged(call, resp) == sync_log' = Append(sync_log, <<call, resp>>)

\* store_metadata up to the first write of the gateway
StoreMetadataStart ==
    /\ phase = "store_metadata"
    /\ sync_st = "idle"
    /\ started' = Append(started, "store_metadata")
    /\ sync_log' = <<>>
    /\ \E clientOk \in BOOLEAN :
          IF clientOk
          THEN /\ sync_st' = "write1"
               /\ UNCHANGED finishVars
          ELSE SyncFinish(EmptyStr)
    /\ UNCHANGED <<httpVars, inputVars, fetch_resp, rss_content, container_exists,
                   blobs, batchVars>>

\* upload_blob_with_container_creation: the first upload_blob returns
SyncWrite1Return ==
    /\ sync_st = "write1"
    /\ \E resp \in UploadBlobResponses(SyncBlobName, Overwrite) :
          /\ SyncLogged("write", resp)
          /\ IF resp = "ok"
             THEN /\ blobs' = StoreBlob(SyncBlobName, SyncContent)
                  /\ SyncFinish(BlobUrl(SyncContainer, SyncBlobName))
             ELSE IF IsContainerMissing(resp)
             THEN /\ sync_st' = "create"
                  /\ UNCHANGED <<blobs, finishVars>>
             ELSE /\ SyncFinish(EmptyStr)
                  /\ UNCHANGED blobs
    /\ UNCHANGED <<httpVars, inputVars, fetch_resp, rss_content, started,
                   container_exists, batchVars>>

\* upload_blob_with_container_creation: create_container returns
SyncCreateReturn ==
    /\ sync_st = "create"
    /\ \E resp \in CreateResponses :
          /\ SyncLogged("create", resp)
          /\ IF resp = "ok"
             THEN /\ container_exists' = TRUE
                  /\ sync_st' = "write2"
                  /\ UNCHANGED finishVars
             ELSE /\ SyncFinish(EmptyStr)
                  /\ UNCHANGED container_exists
    /\ UNCHANGED <<httpVars, inputVars, fetch_resp, rss_content, started, blobs,
                   batchVars>>

\* upload_blob_with_container_creation: the retried upload_blob returns
SyncWrite2Return ==
    /\ sync_st = "write2"
    /\ \E resp \in UploadBlobResponses(SyncBlobName, Overwrite) :
          /\ SyncLogged("write", resp)
          /\ IF resp = "ok"
             THEN /\ blobs' = StoreBlob(SyncBlobName, SyncContent)
                  /\ SyncFinish(BlobUrl(SyncContainer, SyncBlobName))
             ELSE /\ SyncFinish(EmptyStr)
                  /\ UNCHANGED blobs
    /\ UNCHANGED <<httpVars, inputVars, fetch_resp, rss_content, started,
                   container_exists, batchVars>>

\* ------------------------------------------------- the batch: one record
InFlight(i) == st[i] \in {"acquired", "write1", "create", "write2"}
Terminal(i) == st[i] = "done"

IsSuccess(result) == result.status = "success"
IsError(result) == result.status = "error"

\* (variant: no gate at all)
CanAcquireUnbounded == TRUE
\* (variant: off by one, the last permit is never handed out)
CanAcquireStrict == permits > 1
\* asyncio.Semaphore.acquire does not block while _value > 0
CanAcquire == permits > 0

\* (variant: the permit is kept when the upload ended in error)
ReleaseAfterLeak(outcome) == IF IsError(outcome) THEN permits ELSE permits + 1
\* "async with semaphore" releases on exit, whatever the body returned
ReleaseAfter(outcome) == permits + 1

\* (variant: a record whose upload ended in error is queued once more)
TaskReturnRetry(i, outcome) ==
    IF IsError(outcome) /\ entered[i] < 2
    THEN /\ st' = [st EXCEPT ![i] = "pending"]
         /\ permits' = permits + 1
         /\ UNCHANGED results
    ELSE /\ results' = [results EXCEPT ![i] = outcome]
         /\ st' = [st EXCEPT ![i] = "done"]
         /\ permits' = permits + 1
\* upload_with_semaphore returns: the task's result reaches gather
TaskReturn(i, outcome) ==
    /\ results' = [results EXCEPT ![i] = outcome]
    /\ st' = [st EXCEPT ![i] = "done"]
    /\ permits' = ReleaseAfter(outcome)

Logged(i, call, resp) ==
    log' = [log EXCEPT ![i] = Append(@, <<call, resp>>)]

RecordBlobName(i) ==
    ArticleBlobName(category, process_date, articles_data[i][2])

\* gather starts the tasks in list order and asyncio.Semaphore serves its
\* waiters first come, first served: a record acquires after every record
\* before it in the list.
IsNextWaiter(i) == \A j \in Records : j < i => st[j] # "pending"

\* upload_with_semaphore: the semaphore is acquired
Acquire(i) ==
    /\ batch_pc = "gather"
    /\ st[i] = "pending"
    /\ IsNextWaiter(i)
    /\ CanAcquire
    /\ permits' = permits - 1
    /\ st' = [st EXCEPT ![i] = "acquired"]
    /\ entered' = [entered EXCEPT ![i] = @ + 1]
    /\ UNCHANGED <<httpVars, inputVars, orchVars, phase, syncVars, container_exists, blobs,
                   batch_pc, client, log, put_calls, results,
                   processed_results, returned>>

\* upload_single_article: destructure, serialize, call upload_blob_async
\* (which issues its first upload_blob)
StartUpload(i) ==
    /\ st[i] = "acquired"
    /\ IF ~CanDestructure(articles_data[i])
       THEN /\ TaskReturn(i, ErrorOutcome("unknown", "unpack"))
            /\ UNCHANGED put_calls
       ELSE IF JsonDumpsFails(articles_data[i][1])
       THEN /\ TaskReturn(i, ErrorOutcome(articles_data[i][2], "not serializable"))
            /\ UNCHANGED put_calls
       ELSE /\ st' = [st EXCEPT ![i] = "write1"]
            /\ put_calls' = [put_calls EXCEPT ![i] = @ + 1]
            /\ UNCHANGED <<results, permits>>
    /\ UNCHANGED <<httpVars, inputVars, orchVars, phase, syncVars, container_exists, blobs,
                   batch_pc, client, log, entered, processed_results, returned>>

\* upload_blob_async: the first upload_blob returns
Write1Return(i) ==
    /\ st[i] = "write1"
    /\ \E resp \in UploadBlobResponses(RecordBlobName(i), Overwrite) :
          /\ Logged(i, "write", resp)
          /\ IF resp = "ok"
             THEN /\ blobs' = StoreBlob(RecordBlobName(i), JsonDumps(articles_data[i][1]))
                  /\ TaskReturn(i, SuccessOutcome(articles_data[i][2],
                                      BlobUrl(container_name, RecordBlobName(i))))
             ELSE IF IsContainerMissing(resp)
             THEN /\ st' = [st EXCEPT ![i] = "create"]
                  /\ UNCHANGED <<blobs, results, permits>>
             ELSE /\ TaskReturn(i, ErrorOutcome(articles_data[i][2], resp))
                  /\ UNCHANGED blobs
    /\ UNCHANGED <<httpVars, inputVars, orchVars, phase, syncVars, container_exists,
                   batch_pc, client, entered, put_calls, processed_results,
                   returned>>

\* upload_blob_async: create_container returns
CreateReturn(i) ==
    /\ st[i] = "create"
    /\ \E resp \in CreateResponses :
          /\ Logged(i, "create", resp)
          /\ IF resp = "ok"
             THEN /\ container_exists' = TRUE
                  /\ st' = [st EXCEPT ![i] = "write2"]
                  /\ UNCHANGED <<results, permits>>
             ELSE /\ TaskReturn(i, ErrorOutcome(articles_data[i][2], resp))
                  /\ UNCHANGED container_exists
    /\ UNCHANGED <<httpVars, inputVars, orchVars, phase, syncVars, blobs, batch_pc, client,
                   entered, put_calls, processed_results, returned>>

\* upload_blob_async: the retried upload_blob returns
Write2Return(i) ==
    /\ st[i] = "write2"
    /\ \E resp \in UploadBlobResponses(RecordBlobName(i), Overwrite) :
          /\ Logged(i, "write", resp)
          /\ IF resp = "ok"
             THEN /\ blobs' = StoreBlob(RecordBlobName(i), JsonDumps(articles_data[i][1]))
                  /\ TaskReturn(i, SuccessOutcome(articles_data[i][2],
                                      BlobUrl(container_name, RecordBlobName(i))))
             ELSE /\ TaskReturn(i, ErrorOutcome(articles_data[i][2], resp))
                  /\ UNCHANGED blobs
    /\ UNCHANGED <<httpVars, inputVars, orchVars, phase, syncVars, container_exists,
                   batch_pc, client, entered, put_calls, processed_results,
                   returned>>

\* ------------------------------------------------ the batch: fan-out, fan-in
\* isinstance(result, Exception)
IsException(result) == "exception" \in DOMAIN result

ProcessResult(result) ==
    IF IsException(result)
    THEN ErrorOutcome("unknown", result.exception)
    ELSE result

\* (variant: the successes are handed back last to first)
ReturnReversed(processed) ==
    LET successes == SelectSeq(processed, IsSuccess)
    IN  [k \in 1..Len(successes) |-> successes[Len(successes) + 1 - k]]
\* (variant: the unfiltered list is handed back)
ReturnAll(processed) == processed
\* the list the batch hands back: successful_uploads
ReturnValue(processed) == SelectSeq(processed, IsSuccess)

\* (variant: the first finished task ends the wait)
GatherFirstCompleted == \E i \in Records : Terminal(i)
\* asyncio.gather resolves when every task has returned
GatherDone == \A i \in Records : Terminal(i)

\* batch_upload_articles_async up to the gather: client, semaphore, tasks.
\* A failing get_async_blob_service_client, or Semaphore(n) with n < 0
\* (ValueError), lands in the outer except and the call returns [].
BatchStart ==
    /\ phase = "parse_and_store"
    /\ batch_pc = "idle"
    /\ \E clientOk \in BOOLEAN :
          IF ~clientOk
          THEN /\ batch_pc' = "returned"
               /\ returned' = <<>>
               /\ phase' = NextPhase(phase)
               /\ UNCHANGED <<client, permits>>
          ELSE IF max_concurrency < 0
          THEN /\ client' = "open"
               /\ batch_pc' = "returned"
               /\ returned' = <<>>
               /\ phase' = NextPhase(phase)
               /\ UNCHANGED permits
          ELSE /\ client' = "open"
               /\ permits' = max_concurrency
               /\ batch_pc' = "gather"
               /\ UNCHANGED <<returned, phase>>
    /\ UNCHANGED <<httpVars, inputVars, orchVars, syncVars, container_exists, blobs, st, log,
                   entered, put_calls, results, processed_results>>

\* gather has every task's result: close the client, process the results,
\* return the successful ones (through run_batch_upload_sync and
\* parse_and_store_articles).  A failing close lands in the outer except.
BatchFinish ==
    /\ batch_pc = "gather"
    /\ GatherDone
    /\ \E closeOk \in BOOLEAN :
          IF closeOk
          THEN /\ client' = "closed"
               /\ processed_results' = [i \in Records |-> ProcessResult(results[i])]
               /\ returned' = ReturnValue(processed_results')
          ELSE /\ client' = "close_failed"
               /\ returned' = <<>>
               /\ UNCHANGED processed_results
    /\ batch_pc' = "returned"
    /\ phase' = NextPhase(phase)
    /\ UNCHANGED <<httpVars, inputVars, orchVars, syncVars, container_exists, blobs, permits, st,
                   log, entered, put_calls, results>>

Next ==
    \/ SyncWrite1Return
    \/ SyncCreateReturn
    \/ SyncWrite2Return
    \/ BatchStart
    \/ \E i \in Records : Acquire(i)
    \/ \E i \in Records : StartUpload(i)
    \/ \E i \in Records : Write1Return(i)
    \/ \E i \in Records : CreateReturn(i)
    \/ \E i \in Records : Write2Return(i)
    \/ BatchFinish
    \/ StoreMetadataStart

Spec == Init /\ [][Next]_vars

\* Every storage call eventually returns or fails and the event loop runs
\* every task that is ready.
FairSpec == Spec /\ WF_vars(Next)

\* ------------------------------------------------------ the normalizer
\* A str of the feed (guid, link) is kept as the pieces it is made of, so
\* that "in" and split can be computed; Text gives the string.
GuidMarker == "oai:arXiv.org:"
LinkMarker == "arxiv.org/abs/"
Guids ==
    { <<>>,
      <<GuidMarker, "a">>,
      <<GuidMarker>>,
      <<"urn:x">>,
      <<GuidMarker, "a", GuidMarker, "c">> }
Links ==
    { <<>>,
      <<"https://", LinkMarker, "b">>,
      <<"https://", LinkMarker>>,
      <<"https://example.org/", "b">> }
\* An entry as feedparser gives it.  An attribute the entry lacks and an
\* empty one are both "" (<<>> for a list): the code tests them with
\* "hasattr(entry, x) and entry.x" or with get(x, '').
Entry(guid, link, title, d) ==
    [guid |-> guid, link |-> link, title |-> title,
     author |-> d.author, authors |-> d.authors,
     description |-> d.description, summary |-> d.summary,
     arxiv_doi |-> d.arxiv_doi, doi |-> d.doi]
\* author objects; name "" is an author without name
Author(name) == [name |-> name]
AuthorLists ==
    { <<>>,
      <<Author("Bo")>>,
      <<Author("")>>,
      <<Author("Bo"), Author(""), Author("Cy")>> }
NoDetails ==
    [author |-> "", authors |-> <<>>, description |-> "", summary |-> "",
     arxiv_doi |-> "", doi |-> ""]
FullDetails ==
    [author |-> "Ann", authors |-> <<Author("Bo")>>, description |-> "abs",
     summary |-> "sum", arxiv_doi |-> "10.1/x", doi |-> "10.2/y"]
Details ==
    [author : {"", "Ann"}, authors : AuthorLists,
     description : {"", "abs"}, summary : {"", "sum"},
     arxiv_doi : {"", "10.1/x"}, doi : {"", "10.2/y"}]
Shapes(G, L, D) == { Entry(g, l, "", d) : g \in G, l \in L, d \in D }
\* the entries of a feed are told apart by their titles
TitleOf(k) == "t" \o ToString(k)
FeedsOver(shapes, lo, n) ==
    UNION { { [k \in 1..m |-> [f[k] EXCEPT !.title = TitleOf(k)]] :
                f \in [1..m -> shapes] } : m \in lo..n }
EntriesOver(G, L, n) == FeedsOver(Shapes(G, L, {NoDetails}), 0, n)

RECURSIVE Text(_)
Text(pieces) ==
    IF pieces = <<>> THEN "" ELSE Head(pieces) \o Text(Tail(pieces))

\* marker in s
Contains(s, marker) == \E k \in 1..Len(s) : s[k] = marker
\* s.split(marker)[-1]: what follows the last occurrence of marker
RECURSIVE SplitLast(_, _)
SplitLast(s, marker) ==
    IF ~Contains(s, marker) THEN s
    ELSE IF Contains(Tail(s), marker) THEN SplitLast(Tail(s), marker)
    ELSE Tail(s)

\* (variant: the link is looked at before the guid)
ExtractIdentifierLinkFirst(entry) ==
    LET identifier ==
            IF entry.link # <<>> /\ Contains(entry.link, LinkMarker)
            THEN Text(SplitLast(entry.link, LinkMarker))
            ELSE ""
    IN  IF identifier = "" /\ entry.guid # <<>>
           /\ Contains(entry.guid, GuidMarker)
        THEN Text(SplitLast(entry.guid, GuidMarker))
        ELSE identifier
\* The identifier of an entry; "" stands for None as well: the code only
\* tests "not identifier".
ExtractIdentifier(entry) ==
    LET identifier ==
            IF entry.guid # <<>> /\ Contains(entry.guid, GuidMarker)
            THEN Text(SplitLast(entry.guid, GuidMarker))
            ELSE ""
    IN  IF identifier = "" /\ entry.link # <<>>
           /\ Contains(entry.link, LinkMarker)
        THEN Text(SplitLast(entry.link, LinkMarker))
        ELSE identifier

\* doi: arxiv_doi, else doi, else None
ExtractDoi(entry) ==
    IF entry.arxiv_doi # "" THEN entry.arxiv_doi
    ELSE IF entry.doi # "" THEN entry.doi
    ELSE NoneValue

HasName(author) == author.name # ""
\* author_names: the names of the authors that have one
AuthorNames(authors) ==
    LET named == SelectSeq(authors, HasName)
    IN  [k \in 1..Len(named) |-> named[k].name]
\* ', '.join(names)
RECURSIVE JoinComma(_)
JoinComma(names) ==
    IF names = <<>> THEN ""
    ELSE IF Len(names) = 1 THEN Head(names)
    ELSE Head(names) \o ", " \o JoinComma(Tail(names))

\* (variant: the author list is looked at before the author field)
ExtractCreatorListFirst(entry) ==
    IF entry.authors # <<>> /\ AuthorNames(entry.authors) # <<>>
    THEN JoinComma(AuthorNames(entry.authors))
    ELSE IF entry.author # "" THEN entry.author
    ELSE NoneValue
\* creator: author, else the joined names of authors, else None
ExtractCreator(entry) ==
    IF entry.author # "" THEN entry.author
    ELSE IF entry.authors # <<>> /\ AuthorNames(entry.authors) # <<>>
    THEN JoinComma(AuthorNames(entry.authors))
    ELSE NoneValue

\* entry.get('description', '') or entry.get('summary', '')
ExtractDescription(entry) ==
    IF entry.description # "" THEN entry.description ELSE entry.summary

\* (variant: fields that are None are left out of the dict)
ArticleMetadataOmitNone(entry, identifier) ==
    IF ExtractCreator(entry) = NoneValue \/ ExtractDoi(entry) = NoneValue
    THEN [identifier |-> identifier, title |-> entry.title,
          link |-> Text(entry.link),
          description |-> ExtractDescription(entry), encodable |-> TRUE]
    ELSE [identifier |-> identifier, title |-> entry.title,
          link |-> Text(entry.link),
          description |-> ExtractDescription(entry),
          creator |-> ExtractCreator(entry), doi |-> ExtractDoi(entry),
          encodable |-> TRUE]
\* article_metadata; encodable: every value of it is a str or None
ArticleMetadata(entry, identifier) ==
    [identifier |-> identifier, title |-> entry.title,
     link |-> Text(entry.link),
     description |-> ExtractDescription(entry),
     creator |-> ExtractCreator(entry), doi |-> ExtractDoi(entry),
     encodable |-> TRUE]

\* (variant: the loop ends at the first entry without identifier)
RECURSIVE ParsedArticlesBreak(_)
ParsedArticlesBreak(entries) ==
    IF entries = <<>> THEN <<>>
    ELSE LET identifier == ExtractIdentifier(Head(entries))
         IN  IF identifier = ""
             THEN <<>>
             ELSE << <<ArticleMetadata(Head(entries), identifier), identifier>> >>
                    \o ParsedArticlesBreak(Tail(entries))
\* the loop over feed.entries: "continue" on an entry without identifier
RECURSIVE ParsedArticles(_)
ParsedArticles(entries) ==
    IF entries = <<>> THEN <<>>
    ELSE LET identifier == ExtractIdentifier(Head(entries))
         IN  IF identifier = ""
             THEN ParsedArticles(Tail(entries))
             ELSE << <<ArticleMetadata(Head(entries), identifier), identifier>> >>
                    \o ParsedArticles(Tail(entries))

\* feedparser.parse: bozo is set on a document that is not well-formed, the
\* entries that could be read are kept
FeedParse(content) == [bozo |-> content.malformed, entries |-> content.entries]

\* (variant: a feed flagged bozo is refused)
ArticlesOfStrict(feed) ==
    IF feed.bozo THEN <<>> ELSE ParsedArticles(feed.entries)
\* feed.bozo only logs a warning
ArticlesOf(feed) == ParsedArticles(feed.entries)

\* parse_and_store_articles up to the call of run_batch_upload_sync
Parse ==
    /\ phase = "parse_and_store"
    /\ batch_pc = "unparsed"
    /\ started' = Append(started, "parse_and_store")
    /\ articles_data' = ArticlesOf(FeedParse(rss_content))
    /\ batch_pc' = "idle"
    /\ st' = [i \in 1..Len(articles_data') |-> "pending"]
    /\ log' = [i \in 1..Len(articles_data') |-> <<>>]
    /\ entered' = [i \in 1..Len(articles_data') |-> 0]
    /\ put_calls' = [i \in 1..Len(articles_data') |-> 0]
    /\ results' = [i \in 1..Len(articles_data') |-> NoResult]
    /\ UNCHANGED <<category, process_date, max_concurrency, phase, syncVars,
                   container_exists, blobs, client, permits,
                   processed_results, returned, fetch_resp, rss_content,
                   raw_storage_url, orch_result, httpVars>>

\* ---------------------------------------------------- the orchestrator
FetchResponses == {"ok", "unreachable", "timeout", "http_error"}

\* fetch_arxiv_rss: response.text, "" after any exception
FetchArxivRss(resp, body) == IF resp = "ok" THEN body ELSE NoDocument

\* (variant: the orchestrator does not look at what fetch returned)
FetchFailedNever(content) == FALSE
\* not rss_content
FetchFailed(content) == content.empty

\* the documents the feed's server may answer with
OrchEntries ==
    FeedsOver({ Entry(<<GuidMarker, "a">>, <<"https://", LinkMarker, "b">>, "", FullDetails),
                Entry(<<GuidMarker, "a">>, <<>>, "", NoDetails),
                Entry(<<>>, <<"https://", LinkMarker, "b">>, "", NoDetails),
                Entry(<<>>, <<>>, "", NoDetails) },
              0, MaxEntries)
OrchDocuments ==
    {NoDocument} \cup
    { Document(FALSE, m, e) : m \in BOOLEAN, e \in OrchEntries }

\* step 1: fetch_arxiv_rss_activity, and the orchestrator's test of its result
Fetch ==
    /\ phase = "fetch"
    /\ \E resp \in FetchResponses, body \in OrchDocuments :
          /\ fetch_resp' = resp
          /\ rss_content' = FetchArxivRss(resp, body)
          /\ IF FetchFailed(rss_content')
             THEN /\ phase' = "finished"
                  /\ orch_result' = OrchError("Failed to fetch arXiv RSS content")
             ELSE /\ phase' = NextPhase(phase)
                  /\ UNCHANGED orch_result
    /\ started' = Append(started, "fetch")
    /\ UNCHANGED <<httpVars, inputVars, syncVars, container_exists, blobs, batchVars,
                   raw_storage_url>>

\* step 2: store_raw_rss_content up to the first write of the gateway
StoreRawStart ==
    /\ phase = "store_raw"
    /\ sync_st = "idle"
    /\ started' = Append(started, "store_raw")
    /\ sync_log' = <<>>
    /\ \E clientOk \in BOOLEAN :
          IF clientOk
          THEN /\ sync_st' = "write1"
               /\ UNCHANGED finishVars
          ELSE SyncFinish(EmptyStr)
    /\ UNCHANGED <<httpVars, inputVars, fetch_resp, rss_content, container_exists,
                   blobs, batchVars>>

\* One orchestration: fetch, store_raw, parse_and_store, store_metadata.
OrchInit ==
    /\ category \in Categories
    /\ process_date \in ProcessDates
    /\ articles_data = <<>>
    /\ max_concurrency = ParseConcurrency
    /\ phase = "fetch"
    /\ sync_st = "idle"
    /\ sync_log = <<>>
    /\ metadata_url = EmptyStr
    /\ container_exists \in BOOLEAN
    /\ blobs \in InitialBlobs(category, process_date, container_exists)
    /\ batch_pc = "unparsed"
    /\ client = "none"
    /\ permits = 0
    /\ st = <<>>
    /\ log = <<>>
    /\ entered = <<>>
    /\ put_calls = <<>>
    /\ results = <<>>
    /\ processed_results = <<>>
    /\ returned = <<>>
    /\ fetch_resp = "none"
    /\ rss_content = NoDocument
    /\ raw_storage_url = EmptyStr
    /\ orch_result = NoResult
    /\ started = <<>>
    /\ HttpIdle

OrchNext ==
    \/ Fetch
    \/ StoreRawStart
    \/ Parse
    \/ Next

OrchSpec == OrchInit /\ [][OrchNext]_vars

\* The durable-functions runtime runs every activity the orchestrator has
\* called, and every call the activity makes returns or fails.
OrchFairSpec == OrchSpec /\ WF_vars(OrchNext)

\* parse_and_store_articles handed any document
NormDocuments ==
    { Document(FALSE, m, e) :
        m \in BOOLEAN,
        e \in EntriesOver(Guids, Links, MaxEntries) \cup
              FeedsOver(Shapes({<<GuidMarker, "a">>},
                               {<<"https://", LinkMarker, "b">>}, Details),
                        1, MaxDetailed) }

NormInit ==
    /\ category \in Categories
    /\ process_date \in ProcessDates
    /\ articles_data = <<>>
    /\ max_concurrency = ParseConcurrency
    /\ phase = "parse_and_store"
    /\ sync_st = "idle"
    /\ sync_log = <<>>
    /\ metadata_url = EmptyStr
    /\ container_exists = TRUE
    /\ blobs = <<>>
    /\ batch_pc = "unparsed"
    /\ client = "none"
    /\ permits = 0
    /\ st = <<>>
    /\ log = <<>>
    /\ entered = <<>>
    /\ put_calls = <<>>
    /\ results = <<>>
    /\ processed_results = <<>>
    /\ returned = <<>>
    /\ fetch_resp = "ok"
    /\ rss_content \in NormDocuments
    /\ raw_storage_url = EmptyStr
    /\ orch_result = NoResult
    /\ started = <<>>
    /\ HttpIdle

NormNext == Parse

NormSpec == NormInit /\ [][NormNext]_vars

\* ------------------------------------------------------ the HTTP endpoints
pipelineVars == <<inputVars, phase, syncVars, container_exists, blobs,
                  batchVars, orchVars>>

\* dict.get(key, default)
DictGet(d, key, default) == IF key \in DOMAIN d THEN d[key] ELSE default
\* the JSON object that holds the keys of S only
Restrict(d, S) == [k \in S |-> d[k]]
\* "not v" for a string or None
Falsy(v) == v \in {NoneValue, ""}
\* None where the value is otherwise a sequence (a URL, a text)
NoneSeq == <<NoneValue>>
FalsySeq(v) == v \in {NoneSeq, EmptyStr}

\* req.get_json() raises ValueError when the body is empty or is not JSON;
\* valid = FALSE stands for such a body.
Request(endpoint, id, valid, req_body) ==
    [endpoint |-> endpoint, id |-> id, valid |-> valid, json |-> req_body]
ErrorResponse(status_code, message) ==
    [status_code |-> status_code, status |-> "error", message |-> message]
HttpReturn(resp) ==
    /\ response' = resp
    /\ http_pc' = "idle"

\* ---- http_trigger_arxiv_rss
TriggerObjects ==
    { Restrict([category |-> c, ProcessDate |-> d], S) :
        c \in {"cs", "math"}, d \in {"", "d1"},
        S \in SUBSET {"category", "ProcessDate"} }

\* (variant: the supplied category is ignored)
ClientInputAlwaysCs(req_body) ==
    [category |-> "cs",
     process_date |-> DictGet(req_body, "ProcessDate", NoneValue)]
\* category = req_body.get('category', 'cs'),
\* process_date = req_body.get('ProcessDate')
ClientInput(req_body) ==
    [category |-> DictGet(req_body, "category", "cs"),
     process_date |-> DictGet(req_body, "ProcessDate", NoneValue)]

\* client.create_check_status_response(req, instance_id)
CheckStatusResponse(instance_id) ==
    [status_code |-> 202, instance_id |-> instance_id]

\* the handler up to the call of client.start_new
HttpTriggerArxivRss ==
    /\ http_pc = "idle"
    /\ request.id < MaxRequests
    /\ \E valid \in BOOLEAN, obj \in TriggerObjects :
          LET req_body == IF valid THEN obj ELSE <<>>
          IN  /\ request' = Request("trigger", request.id + 1, valid, req_body)
              /\ IF ~valid
                 THEN HttpReturn(ErrorResponse(500, "Error starting orchestration"))
                 ELSE IF Falsy(ClientInput(req_body).process_date)
                 THEN HttpReturn(ErrorResponse(400,
                          "ProcessDate is required in the request body"))
                 ELSE /\ http_pc' = "start_new"
                      /\ response' = NoResponse
    /\ UNCHANGED <<article_metadata, start_calls, model_calls, pipelineVars>>

\* client.start_new returns an instance id or raises
StartNewReturn ==
    /\ http_pc = "start_new"
    /\ \E ok \in BOOLEAN :
          /\ start_calls' =
                Append(start_calls,
                       [request |-> request.id,
                        orchestrator |-> "arxiv_orchestrator",
                        client_input |-> ClientInput(request.json),
                        started |-> ok])
          /\ IF ok
             THEN HttpReturn(CheckStatusResponse(Len(start_calls')))
             ELSE HttpReturn(ErrorResponse(500, "Error starting orchestration"))
    /\ UNCHANGED <<request, article_metadata, model_calls, pipelineVars>>

\* ---- simplify_article_description
\* A blob URL is https://<account host>/<container>/<blob name>; BlobUrl
\* keeps the part after the host.
AccountHost == "account.blob.core.windows.net"
FileUrls ==
    { EmptyStr,
      <<container_name>>,
      BlobUrl(container_name, ArticleBlobName("cs", "d1", "a")),
      BlobUrl(container_name, ArticleBlobName("cs", "d1", "b")),
      BlobUrl(container_name, ArticleBlobName("cs", "d1", "c")),
      BlobUrl(container_name, RawBlobName("cs", "d1")),
      BlobUrl(container_name, MetaBlobName("cs", "d1")),
      BlobUrl("other", ArticleBlobName("cs", "d1", "a")) }
SimplifyObjects ==
    { Restrict([file_url |-> u], S) :
        u \in FileUrls, S \in SUBSET {"file_url"} }

\* file_url.replace('http://', '').replace('https://', '').split('/'),
\* the blob name being one part here
UrlParts(file_url) == <<AccountHost>> \o file_url

\* json.loads raises on text that is not JSON
JsonLoadsFails(content) == content[1] # "json"
JsonLoads(content) == content[2]

\* read_article_metadata_from_url: None after any exception.  available
\* tells whether the storage service answers.
ReadArticleMetadataFromUrl(file_url, available) ==
    LET url_parts == UrlParts(file_url)
    IN  IF Len(url_parts) < 3 THEN NoMetadata
        ELSE IF \/ ~available
                \/ url_parts[2] # container_name
                \/ ~container_exists
                \/ url_parts[3] \notin DOMAIN blobs
        THEN NoMetadata
        ELSE IF JsonLoadsFails(blobs[url_parts[3]]) THEN NoMetadata
        ELSE JsonLoads(blobs[url_parts[3]])

\* (variant: a record without description is sent to the model)
NoDescriptionNever(metadata) == FALSE
\* not article_metadata.get('description', '')
NoDescription(metadata) == Falsy(DictGet(metadata, "description", ""))

SuccessResponse(simplified_description, metadata) ==
    [status_code |-> 200, status |-> "success",
     simplified_description |-> simplified_description,
     article_metadata |-> metadata]

\* the handler up to the call of read_article_metadata_from_url
SimplifyArticleDescription ==
    /\ http_pc = "idle"
    /\ request.id < MaxRequests
    /\ \E valid \in BOOLEAN, obj \in SimplifyObjects :
          LET req_body == IF valid THEN obj ELSE <<>>
          IN  /\ request' = Request("simplify", request.id + 1, valid, req_body)
              /\ IF ~valid
                 THEN HttpReturn(ErrorResponse(500, "Internal server error"))
                 ELSE IF DOMAIN req_body = {}
                 THEN HttpReturn(ErrorResponse(400, "Request body is required"))
                 ELSE IF FalsySeq(DictGet(req_body, "file_url", NoneSeq))
                 THEN HttpReturn(ErrorResponse(400,
                          "file_url is required in the request body"))
                 ELSE /\ http_pc' = "read"
                      /\ response' = NoResponse
    /\ article_metadata' = NoMetadata
    /\ UNCHANGED <<start_calls, model_calls, pipelineVars>>

\* read_article_metadata_from_url returns, and the handler's two tests
ReadArticleMetadataReturn ==
    /\ http_pc = "read"
    /\ \E available \in BOOLEAN :
          /\ article_metadata' =
                ReadArticleMetadataFromUrl(request.json["file_url"], available)
          /\ IF article_metadata' = NoMetadata
             THEN HttpReturn(ErrorResponse(404,
                      "Failed to read article metadata from the provided URL"))
             ELSE IF NoDescription(article_metadata')
             THEN HttpReturn(ErrorResponse(400,
                      "No description found in the article metadata"))
             ELSE /\ http_pc' = "model"
                  /\ response' = NoResponse
    /\ UNCHANGED <<request, start_calls, model_calls, pipelineVars>>

\* what simplify_text_with_openai can meet: the configuration is missing,
\* the call raises, the message has no content, or it has a text
ModelContents == { <<>>, <<" ">>, <<"p">>, <<" ", "p", " ">> }
ModelOutcomes ==
    { [kind |-> k, content |-> NoneSeq] : k \in {"no_config", "raises", "none"} }
    \cup { [kind |-> "content", content |-> c] : c \in ModelContents }

\* str.strip()
RECURSIVE LStrip(_)
LStrip(s) == IF s # <<>> /\ Head(s) = " " THEN LStrip(Tail(s)) ELSE s
RECURSIVE RStrip(_)
RStrip(s) ==
    IF s # <<>> /\ s[Len(s)] = " " THEN RStrip(SubSeq(s, 1, Len(s) - 1)) ELSE s
Strip(s) == RStrip(LStrip(s))

\* (variant: the call is made again after a failure)
ModelCallsOfRetry(outcome) ==
    CASE outcome.kind = "no_config" -> 0
      [] outcome.kind = "raises" -> 2
      [] OTHER -> 1
\* how many times chat.completions.create is called
ModelCallsOf(outcome) == IF outcome.kind = "no_config" THEN 0 ELSE 1

\* the value simplify_text_with_openai returns
SimplifyTextWithOpenai(outcome) ==
    IF outcome.kind \in {"no_config", "raises", "none"} THEN NoneSeq
    ELSE IF FalsySeq(outcome.content) THEN NoneSeq
    ELSE Strip(outcome.content)

ModelCall(outcome) ==
    [request |-> request.id,
     description |-> DictGet(article_metadata, "description", ""),
     outcome |-> outcome.kind, content |-> outcome.content]

\* simplify_text_with_openai returns, and the handler's last test
SimplifyTextReturn ==
    /\ http_pc = "model"
    /\ \E outcome \in ModelOutcomes :
          LET simplified_description == SimplifyTextWithOpenai(outcome)
          IN  /\ model_calls' =
                    model_calls \o
                    [k \in 1..ModelCallsOf(outcome) |-> ModelCall(outcome)]
              /\ IF FalsySeq(simplified_description)
                 THEN HttpReturn(ErrorResponse(500,
                          "Failed to simplify the description using Azure OpenAI"))
                 ELSE HttpReturn(SuccessResponse(simplified_description,
                                                 article_metadata))
    /\ UNCHANGED <<request, article_metadata, start_calls, pipelineVars>>

\* The container as a finished run of category "cs" leaves it: an article
\* with a description, an article without, the raw feed and the summary.
HttpBlobs(cat, date) ==
    LET a == ArticleBlobName(cat, date, "a")
        b == ArticleBlobName(cat, date, "b")
        raw == RawBlobName(cat, date)
        meta == MetaBlobName(cat, date)
    IN  [k \in {a, b, raw, meta} |->
            CASE k = a -> JsonDumps(ArticleMetadata(
                              Entry(<<GuidMarker, "a">>, <<>>, "t0", FullDetails), "a"))
              [] k = b -> JsonDumps(ArticleMetadata(
                              Entry(<<GuidMarker, "b">>, <<>>, "t1", NoDetails), "b"))
              [] k = raw -> <<"text", Document(FALSE, FALSE, <<>>)>>
              [] k = meta -> JsonDumps([category |-> cat, process_date |-> date,
                                        total_articles |-> 2])]

\* The two endpoints serving requests one after the other.
HttpInit ==
    /\ category \in Categories
    /\ process_date \in ProcessDates
    /\ articles_data = <<>>
    /\ max_concurrency = ParseConcurrency
    /\ phase = "finished"
    /\ sync_st = "idle"
    /\ sync_log = <<>>
    /\ metadata_url = EmptyStr
    /\ container_exists = TRUE
    /\ blobs = HttpBlobs(category, process_date)
    /\ batch_pc = "idle"
    /\ client = "none"
    /\ permits = 0
    /\ st = <<>>
    /\ log = <<>>
    /\ entered = <<>>
    /\ put_calls = <<>>
    /\ results = <<>>
    /\ processed_results = <<>>
    /\ returned = <<>>
    /\ fetch_resp = "none"
    /\ rss_content = NoDocument
    /\ raw_storage_url = EmptyStr
    /\ orch_result = NoResult
    /\ started = <<>>
    /\ HttpIdle

HttpNext ==
    \/ HttpTriggerArxivRss
    \/ StartNewReturn
    \/ SimplifyArticleDescription
    \/ ReadArticleMetadataReturn
    \/ SimplifyTextReturn

HttpSpec == HttpInit /\ [][HttpNext]_vars

\* --------------------------------------- function_app.py: the monolith
\* function_app.py defines the gateway and the scheduler a second time.
\* They are written here as functions of the responses the backend gives:
\* resps is the sequence of responses to the calls of one put, in order.
ResponseAt(resps, k) == IF k <= Len(resps) THEN resps[k] ELSE "none"
PutReturned(calls, url) ==
    [calls |-> calls, raised |-> FALSE, url |-> url, error |-> ""]
PutRaised(calls, error) ==
    [calls |-> calls, raised |-> TRUE, url |-> EmptyStr, error |-> error]

\* "The specified container does not exist" in str(upload_error)
AppIsContainerMissing(resp) == resp = "ContainerNotFound"

\* function_app.py upload_blob_with_container_creation
AppUploadBlobWithContainerCreation(container, blob_name, resps) ==
    IF ResponseAt(resps, 1) = "ok"
    THEN PutReturned(<<"write">>, BlobUrl(container, blob_name))
    ELSE IF ~AppIsContainerMissing(ResponseAt(resps, 1))
    THEN PutRaised(<<"write">>, ResponseAt(resps, 1))
    ELSE IF ResponseAt(resps, 2) # "ok"
    THEN PutRaised(<<"write", "create">>, ResponseAt(resps, 2))
    ELSE IF ResponseAt(resps, 3) # "ok"
    THEN PutRaised(<<"write", "create", "write">>, ResponseAt(resps, 3))
    ELSE PutReturned(<<"write", "create", "write">>, BlobUrl(container, blob_name))

\* (variant: the upload is not tried again after the container was created)
AppUploadBlobAsyncNoRetry(container, blob_name, resps) ==
    IF ResponseAt(resps, 1) = "ok"
    THEN PutReturned(<<"write">>, BlobUrl(container, blob_name))
    ELSE IF ~AppIsContainerMissing(ResponseAt(resps, 1))
    THEN PutRaised(<<"write">>, ResponseAt(resps, 1))
    ELSE IF ResponseAt(resps, 2) # "ok"
    THEN PutRaised(<<"write", "create">>, ResponseAt(resps, 2))
    ELSE PutRaised(<<"write", "create">>, ResponseAt(resps, 1))
\* function_app.py upload_blob_async
AppUploadBlobAsync(container, blob_name, resps) ==
    IF ResponseAt(resps, 1) = "ok"
    THEN PutReturned(<<"write">>, BlobUrl(container, blob_name))
    ELSE IF ~AppIsContainerMissing(ResponseAt(resps, 1))
    THEN PutRaised(<<"write">>, ResponseAt(resps, 1))
    ELSE IF ResponseAt(resps, 2) # "ok"
    THEN PutRaised(<<"write", "create">>, ResponseAt(resps, 2))
    ELSE IF ResponseAt(resps, 3) # "ok"
    THEN PutRaised(<<"write", "create", "write">>, ResponseAt(resps, 3))
    ELSE PutReturned(<<"write", "create", "write">>, BlobUrl(container, blob_name))

\* function_app.py batch_upload_articles_async
app_container_name == "arxiv-data"
AppArticleBlobName(cat, date, identifier) ==
    cat \o "/ProcessDate=" \o date \o "/articles/" \o identifier \o ".json"

\* upload_single_article: the calls of the record's put and its outcome
AppUploadSingleArticle(article_data, cat, date, resps) ==
    IF Len(article_data) # 2
    THEN [calls |-> <<>>,
          outcome |-> [identifier |-> "unknown", url |-> EmptyStr,
                       status |-> "error", error |-> "unpack"]]
    ELSE IF ~article_data[1].encodable
    THEN [calls |-> <<>>,
          outcome |-> [identifier |-> article_data[2], url |-> EmptyStr,
                       status |-> "error", error |-> "not serializable"]]
    ELSE LET put == AppUploadBlobAsync(app_container_name,
                        AppArticleBlobName(cat, date, article_data[2]), resps)
         IN  [calls |-> put.calls,
              outcome |->
                 IF put.raised
                 THEN [identifier |-> article_data[2], url |-> EmptyStr,
                       status |-> "error", error |-> put.error]
                 ELSE [identifier |-> article_data[2], url |-> put.url,
                       status |-> "success"]]

\* The whole call: whether it returns, the list it returns, the calls each
\* record's put made and the results gather collected.  clientOk and closeOk tell whether
\* get_async_blob_service_client and blob_service_client.close() succeed;
\* resps[i] are the responses to the calls of record i.
AppBatchUploadArticlesAsync(articles, cat, date, n, clientOk, closeOk, resps) ==
    LET none == [i \in DOMAIN articles |-> <<>>]
        unset == [i \in DOMAIN articles |-> NoResult]
        tasks == [i \in DOMAIN articles |->
                    AppUploadSingleArticle(articles[i], cat, date, resps[i])]
        results_ == [i \in DOMAIN articles |-> tasks[i].outcome]
        successful_uploads == SelectSeq(results_, IsSuccess)
    IN  IF ~clientOk \/ n < 0
        THEN [returns |-> TRUE, returned |-> <<>>, calls |-> none,
              results |-> unset]
        ELSE IF n = 0 /\ Len(articles) > 0
        THEN [returns |-> FALSE, returned |-> <<>>, calls |-> none,
              results |-> unset]
        ELSE [returns |-> TRUE,
              returned |-> IF closeOk THEN successful_uploads ELSE <<>>,
              calls |-> [i \in DOMAIN articles |-> tasks[i].calls],
              results |-> results_]

\* ===================================================================
\* Properties
\* ===================================================================
InFlightSet == { i \in Records : InFlight(i) }
PendingSet == { i \in Records : st[i] = "pending" }
WellFormed(i) ==
    CanDestructure(articles_data[i]) /\ articles_data[i][1].encodable
Unencodable(i) ==
    CanDestructure(articles_data[i]) /\ ~articles_data[i][1].encodable
HasOutcome(i) == IsSuccess(results[i]) \/ IsError(results[i])
Responses(l) == { l[k][2] : k \in 1..Len(l) }
Calls(l) == { l[k][1] : k \in 1..Len(l) }

\* C1: with max_concurrency >= 1, the number of records whose upload is in
\* flight (semaphore acquired, task not yet returned) never exceeds
\* max_concurrency, however many records were submitted.
C1_BoundedConcurrency ==
    max_concurrency >= 1 => Cardinality(InFlightSet) <= max_concurrency

\* C1 witness: the cap is reached while another record is still waiting.
C1_Witness ==
    /\ max_concurrency >= 1
    /\ batch_pc = "gather"
    /\ Cardinality(InFlightSet) = max_concurrency
    /\ PendingSet # {}

\* C2 as stated: the sequence the batch call returns holds one outcome per
\* input record, failed records included as error outcomes (stated here for
\* the runs in which the client was acquired and closed normally).
C2_ReturnsOnePerRecord ==
    (batch_pc = "returned" /\ client = "closed") =>
        /\ Len(returned) = Len(articles_data)
        /\ \A i \in Records : returned[i] = results[i]

\* C2 amended: after a normal fan-in processed_results holds one outcome per
\* input record, in input order, failed records as error outcomes; the batch
\* itself partitions them and returns only the successes, and returns the
\* empty list when the client could not be acquired or closed or the
\* semaphore could not be built.
C2_ProcessedOnePerRecord ==
    batch_pc = "returned" =>
        IF client = "closed"
        THEN /\ Len(processed_results) = Len(articles_data)
             /\ \A i \in Records :
                   /\ processed_results[i] = results[i]
                   /\ HasOutcome(i)
                   /\ IsSuccess(results[i]) <=>
                        (log[i] # <<>> /\ log[i][Len(log[i])] = <<"write", "ok">>)
             /\ Len(returned) = Cardinality({ i \in Records : IsSuccess(results[i]) })
             /\ \A k \in 1..Len(returned) : IsSuccess(returned[k])
        ELSE returned = <<>>

\* C2 witness: a returned batch with a failed and a successful record.
C2_Witness ==
    /\ batch_pc = "returned"
    /\ client = "closed"
    /\ \E i, j \in Records : IsError(results[i]) /\ IsSuccess(results[j])
    /\ Len(returned) < Len(articles_data)

AnyUploadFailed == \E i \in Records : Terminal(i) /\ IsError(results[i])
AllAttemptedAndTerminal ==
    \A j \in Records : Terminal(j) /\ entered[j] = 1 /\ HasOutcome(j)

\* C3: once the upload of some record has failed (destructuring,
\* serialization or storage), every record of the batch still gets its upload
\* attempted and reaches a terminal outcome, and the batch returns.
C3_PerRecordIsolation ==
    AnyUploadFailed ~> (AllAttemptedAndTerminal /\ batch_pc = "returned")

\* C3 witness: serial batch, one record has failed and the next one is
\* being uploaded.
C3_Witness ==
    /\ max_concurrency = 1
    /\ \E i, j \in Records :
          /\ Terminal(i) /\ IsError(results[i])
          /\ InFlight(j) /\ put_calls[j] = 1

NoWriteRejected ==
    \A j \in Records :
        \A k \in 1..Len(log[j]) : log[j][k][1] = "write" => log[j][k][2] = "ok"

\* C4: when one record cannot be serialized, its upload was attempted, every
\* other record is well-formed and the backend accepted every write, the
\* batch call returns a list, the failing record has an error outcome under
\* its own identifier and every other record a success outcome.
C4_SerializationIsolation ==
    \A i \in Records :
        ( /\ batch_pc = "returned"
          /\ Unencodable(i)
          /\ entered[i] >= 1
          /\ \A j \in Records \ {i} : WellFormed(j)
          /\ NoWriteRejected )
        => /\ IsError(results[i])
           /\ results[i].identifier = articles_data[i][2]
           /\ \A j \in Records \ {i} : IsSuccess(results[j])
           /\ client = "closed" => Len(returned) = Len(articles_data) - 1

\* C4 witness: two valid records and one unencodable record, all writes
\* accepted, batch returned.
C4_Witness ==
    /\ batch_pc = "returned"
    /\ client = "closed"
    /\ Len(articles_data) >= 3
    /\ NoWriteRejected
    /\ \E i \in Records :
          /\ Unencodable(i) /\ IsError(results[i])
          /\ \A j \in Records \ {i} : WellFormed(j) /\ IsSuccess(results[j])

SawContainerMissing(l) == l # <<>> /\ l[1] = <<"write", "ContainerNotFound">>

\* C5: every in-flight upload whose first write failed with "container does
\* not exist" ends with outcome success, another upload having created the
\* container first being tolerated, unless the backend was unavailable for
\* one of its calls.
C5_CreationRaceTolerated ==
    \A i \in Records :
        ( /\ Terminal(i)
          /\ SawContainerMissing(log[i])
          /\ "Unavailable" \notin Responses(log[i]) )
        => IsSuccess(results[i])

\* ---- one gateway put, seen through the calls it made
PendingCall(position) ==
    CASE position = "write1" -> 0
      [] position = "create" -> 1
      [] position = "write2" -> 2
      [] OTHER -> -1

\* l: the calls of one put with their responses; position: where the put
\* stands; finished: it has returned or raised; ok: it returned a url;
\* err: what it raised.
PutDiscipline(l, position, finished, ok, err) ==
    /\ Len(l) <= 3
    /\ Cardinality({ k \in 1..Len(l) : l[k][1] = "write" }) <= 2
    /\ Cardinality({ k \in 1..Len(l) : l[k][1] = "create" }) <= 1
    /\ Len(l) >= 1 => l[1][1] = "write"
    /\ Len(l) >= 2 => l[1] = <<"write", "ContainerNotFound">> /\ l[2][1] = "create"
    /\ Len(l) = 3 => l[2] = <<"create", "ok">> /\ l[3][1] = "write"
    /\ PendingCall(position) >= 0 => Len(l) = PendingCall(position)
    /\ (finished /\ l # <<>>) =>
          LET last == l[Len(l)] IN
          /\ ~(Len(l) = 1 /\ last[2] = "ContainerNotFound")
          /\ ~(Len(l) = 2 /\ last[2] = "ok")
          /\ ok <=> last = <<"write", "ok">>
          /\ ~ok => err = last[2]

SyncFinished == phase = "finished"

\* C6: one gateway put (asynchronous or synchronous) writes at most twice and
\* creates the container at most once; the second write comes only after a
\* first write that failed with "container does not exist" and a creation
\* that succeeded; any other failure of the first write, a failed creation
\* and a failure of the retried write end the put with that very error.
C6_SingleRetry ==
    /\ \A i \in Records :
          PutDiscipline(log[i], st[i], Terminal(i), IsSuccess(results[i]),
                        IF IsError(results[i]) THEN results[i].error ELSE "")
    /\ PutDiscipline(sync_log, sync_st, SyncFinished, metadata_url # EmptyStr,
                     IF sync_log # <<>> THEN sync_log[Len(sync_log)][2] ELSE "")

\* C6 witness: a put went write, create, write and its retried write failed,
\* which ended the put in error.
C6_Witness ==
    \E i \in Records :
        /\ Terminal(i)
        /\ log[i] = << <<"write", "ContainerNotFound">>, <<"create", "ok">>,
                       <<"write", "Unavailable">> >>
        /\ IsError(results[i])
        /\ results[i].error = "Unavailable"

Stored(blob_name) == blob_name \in DOMAIN blobs

\* C7: a put to a container that does not exist succeeds when the backend is
\* available (afterwards the container exists and the object is stored), and
\* a put that comes after a successful put of the run makes no creation call.
C7_AutoCreation ==
    /\ \A i \in Records :
          ( /\ Terminal(i)
            /\ SawContainerMissing(log[i])
            /\ "Unavailable" \notin Responses(log[i]) )
          => /\ IsSuccess(results[i])
             /\ container_exists
             /\ Stored(RecordBlobName(i))
    /\ ( /\ SyncFinished
          /\ SawContainerMissing(sync_log)
          /\ "Unavailable" \notin Responses(sync_log) )
       => /\ metadata_url # EmptyStr
          /\ container_exists
          /\ Stored(SyncBlobName)
    /\ (\E i \in Records : IsSuccess(results[i])) =>
          "create" \notin Calls(sync_log)

\* C8 as stated: for a positive max_concurrency, whenever the batch call has
\* returned every submitted record has reached a terminal outcome.
C8_ReturnedImpliesAllTerminal ==
    (max_concurrency >= 1 /\ batch_pc = "returned") =>
        \A i \in Records : Terminal(i) /\ HasOutcome(i)

\* C8 amended: when the storage client was acquired and the semaphore built
\* (max_concurrency >= 0), the batch call returns only after every record
\* has reached a terminal outcome; before it returns nothing of the result
\* is visible to the caller.  (When the client cannot be acquired the call
\* returns the empty list with every record still pending.)
C8_BlocksUntilAllTerminal ==
    /\ (batch_pc = "returned" /\ client # "none" /\ max_concurrency >= 0) =>
          \A i \in Records : Terminal(i) /\ HasOutcome(i)
    /\ batch_pc # "returned" =>
          /\ returned = <<>>
          /\ processed_results = <<>>
          /\ phase = "parse_and_store"

\* C8 witness: a batch of several records has returned after a normal
\* fan-in.
C8_Witness ==
    /\ batch_pc = "returned"
    /\ client = "closed"
    /\ Len(articles_data) >= 2
    /\ \A i \in Records : Terminal(i)
    /\ returned # <<>>

RecordStep(i) ==
    /\ st[i] = "pending" => st'[i] \in {"pending", "acquired"}
    /\ InFlight(i) => (InFlight(i)' \/ Terminal(i)')
    /\ InFlight(i) => entered'[i] = entered[i]
    /\ Terminal(i) => Terminal(i)' /\ results'[i] = results[i]
    /\ put_calls'[i] >= put_calls[i]

RecordCounts(i) ==
    /\ entered[i] <= 1
    /\ put_calls[i] <= 1
    /\ st[i] = "pending" <=> entered[i] = 0
    /\ Terminal(i) <=> HasOutcome(i)
    /\ st[i] \in {"write1", "create", "write2"} => put_calls[i] = 1

\* C9: a record goes pending -> in-flight -> {success | error}; it enters
\* in-flight once, a terminal outcome is never left or changed, and the
\* scheduler calls the gateway put for a record at most once.
C9_RecordLifecycle ==
    /\ [](\A i \in Records : RecordCounts(i))
    /\ [][\A i \in Records : RecordStep(i)]_vars

\* C9 witness: a record whose put ended in error is terminal after exactly
\* one entry and one put, and the batch has returned.
C9_Witness ==
    /\ batch_pc = "returned"
    /\ \E i \in Records :
          /\ IsError(results[i])
          /\ log[i] # <<>>
          /\ entered[i] = 1
          /\ put_calls[i] = 1

AllTerminal == \A i \in Records : Terminal(i)

\* C10 as stated: for a positive max_concurrency every record eventually
\* reaches a terminal outcome and the batch call eventually returns.
C10_AllTerminalAndReturns ==
    max_concurrency >= 1 => <>(batch_pc = "returned" /\ AllTerminal)

\* C10 amended: for every positive max_concurrency and every list of records
\* the batch call eventually returns, and every record eventually reaches a
\* terminal outcome provided the storage client was acquired.
C10_Terminates ==
    max_concurrency >= 1 =>
        <>(batch_pc = "returned" /\ (client # "none" => AllTerminal))

\* C10 witness: a fully serial batch of several records has returned with
\* every record terminal.
C10_Witness ==
    /\ max_concurrency = 1
    /\ Len(articles_data) >= 2
    /\ batch_pc = "returned"
    /\ client # "none"
    /\ AllTerminal

\* ---- shape of one outcome
OutcomeShape(o) ==
    /\ o.status \in {"success", "error"}
    /\ "identifier" \in DOMAIN o /\ "url" \in DOMAIN o
    /\ IsSuccess(o) => (o.url # EmptyStr /\ "error" \notin DOMAIN o)
    /\ IsError(o) => (o.url = EmptyStr /\ "error" \in DOMAIN o /\ o.error # "")

\* C11: every outcome the scheduler produces (a task's result, an element of
\* processed_results, an element of the returned list) has status success
\* with a non-empty location and no error detail, or status error with an
\* error detail and an empty location.
C11_OutcomeShape ==
    /\ \A i \in Records : HasOutcome(i) => OutcomeShape(results[i])
    /\ \A i \in Records : Terminal(i) => HasOutcome(i)
    /\ \A k \in 1..Len(processed_results) : OutcomeShape(processed_results[k])
    /\ \A k \in 1..Len(returned) : OutcomeShape(returned[k])

\* C11 witness: a returned batch holding a success and an error outcome.
C11_Witness ==
    /\ batch_pc = "returned"
    /\ Len(processed_results) >= 2
    /\ \E j, k \in 1..Len(processed_results) :
          /\ IsSuccess(processed_results[j]) /\ processed_results[j].url # EmptyStr
          /\ IsError(processed_results[k]) /\ processed_results[k].error = "Unavailable"

\* C12: the identifier of an outcome is the identifier of its record, and it
\* is "unknown" exactly when the record could not be destructured; a
\* serialization or storage failure reports the record's own identifier.
C12_OutcomeIdentifier ==
    \A i \in Records : HasOutcome(i) =>
        /\ CanDestructure(articles_data[i]) =>
              results[i].identifier = articles_data[i][2]
        /\ ~CanDestructure(articles_data[i]) <=>
              results[i].identifier = "unknown"
        /\ batch_pc = "returned" /\ client = "closed" =>
              processed_results[i].identifier = results[i].identifier

\* C12 witness: in one batch a record that could not be destructured is
\* reported as "unknown", a record that could not be serialized and a record
\* whose write failed are reported under their own identifiers.
C12_Witness ==
    \E i, j, k \in Records :
        /\ ~CanDestructure(articles_data[i]) /\ IsError(results[i])
        /\ results[i].identifier = "unknown"
        /\ Unencodable(j) /\ IsError(results[j])
        /\ results[j].identifier = articles_data[j][2]
        /\ WellFormed(k) /\ IsError(results[k]) /\ log[k] # <<>>
        /\ results[k].identifier = articles_data[k][2]

WroteObject(i) == \E k \in 1..Len(log[i]) : log[i][k] = <<"write", "ok">>
SameKey(i, j) ==
    /\ CanDestructure(articles_data[i]) /\ CanDestructure(articles_data[j])
    /\ RecordBlobName(i) = RecordBlobName(j)

UploadSucceeds(i) ==
    /\ st[i] \in {"write1", "write2"}
    /\ Terminal(i)'
    /\ IsSuccess(results'[i])

\* C14: a record uploaded again (to a key an earlier run or an earlier record
\* of the batch has written) goes to the same key, the write is never
\* refused because the key exists, and right after a successful write the
\* key holds exactly the content of that write, every other key being left
\* as it was.
C14_LastWriterWins ==
    /\ [](\A i \in Records : "BlobAlreadyExists" \notin Responses(log[i]))
    /\ [][\A i \in Records : UploadSucceeds(i) =>
            /\ RecordBlobName(i) \in DOMAIN blobs'
            /\ blobs'[RecordBlobName(i)] = JsonDumps(articles_data[i][1])
            /\ \A k \in DOMAIN blobs \ {RecordBlobName(i)} :
                  k \in DOMAIN blobs' /\ blobs'[k] = blobs[k]
            /\ DOMAIN blobs' = DOMAIN blobs \cup {RecordBlobName(i)}]_vars

\* C14 witness: the same record was submitted twice and both uploads
\* succeeded on the same key, which holds the record and not what an
\* earlier run left there.
C14_Witness ==
    \E i, j \in Records :
        /\ i < j
        /\ articles_data[i] = articles_data[j]
        /\ IsSuccess(results[i]) /\ IsSuccess(results[j])
        /\ results[i].url = results[j].url
        /\ blobs[RecordBlobName(j)] = JsonDumps(articles_data[j][1])
        /\ blobs[RecordBlobName(j)] # EarlierContent

\* ------------------------------------------------ orchestration claims
ExpectedArticleUrl(C, D, I) ==
    <<"arxiv-data", C \o "/ProcessDate=" \o D \o "/articles/" \o I \o ".json">>
ExpectedRawUrl(C, D) == <<"arxiv-data", C \o "/ProcessDate=" \o D \o "/rss_raw.xml">>
ExpectedMetaUrl(C, D) == <<"arxiv-data", C \o "/ProcessDate=" \o D \o "/meta.json">>

\* C15: the object of a record is stored at C/ProcessDate=D/articles/I.json,
\* which depends on category, process date and identifier only; the raw feed
\* is stored at C/ProcessDate=D/rss_raw.xml and the summary at
\* C/ProcessDate=D/meta.json, all in the one container, and the run stores
\* nothing under any other name.
C15_KeyDerivation ==
    /\ \A i \in Records : IsSuccess(results[i]) =>
          /\ results[i].url =
                ExpectedArticleUrl(category, process_date, articles_data[i][2])
          /\ Stored(results[i].url[2])
    /\ raw_storage_url # EmptyStr =>
          /\ raw_storage_url = ExpectedRawUrl(category, process_date)
          /\ Stored(raw_storage_url[2])
    /\ metadata_url # EmptyStr =>
          /\ metadata_url = ExpectedMetaUrl(category, process_date)
          /\ Stored(metadata_url[2])
    /\ \A k \in DOMAIN blobs :
          \/ k = ExpectedRawUrl(category, process_date)[2]
          \/ k = ExpectedMetaUrl(category, process_date)[2]
          \/ blobs[k] = EarlierContent
          \/ \E i \in Records :
                k = ExpectedArticleUrl(category, process_date, articles_data[i][2])[2]

\* C15 witness: a finished run that stored the raw feed, the summary and two
\* records of the same identifier and different metadata under one key.
C15_Witness ==
    /\ phase = "finished"
    /\ raw_storage_url = <<"arxiv-data", "cs/ProcessDate=d1/rss_raw.xml">>
    /\ metadata_url = <<"arxiv-data", "cs/ProcessDate=d1/meta.json">>
    /\ Len(articles_data) = 2
    /\ articles_data[1][1] # articles_data[2][1]
    /\ IsSuccess(results[1]) /\ IsSuccess(results[2])
    /\ results[1].url = <<"arxiv-data", "cs/ProcessDate=d1/articles/a.json">>
    /\ results[2].url = results[1].url

TransportError == fetch_resp \in {"unreachable", "timeout", "http_error"}

\* C16: when the HTTP request of the fetch fails, the orchestrator returns
\* an error result and no later step has run: the fetch is the only
\* activity called, no storage call was issued, nothing was stored and the
\* batch was not started.
C16_TransportErrorStopsRun ==
    TransportError =>
        /\ phase = "finished"
        /\ orch_result.status = "error"
        /\ started = <<"fetch">>
        /\ sync_st = "idle" /\ sync_log = <<>>
        /\ raw_storage_url = EmptyStr /\ metadata_url = EmptyStr
        /\ batch_pc = "unparsed" /\ articles_data = <<>>
        /\ ~Stored(RawBlobName(category, process_date))
        /\ ~Stored(MetaBlobName(category, process_date))

\* C16 witness: the request timed out and the run ended with the error.
C16_Witness ==
    /\ fetch_resp = "timeout"
    /\ phase = "finished"
    /\ orch_result = OrchError("Failed to fetch arXiv RSS content")

StepOrder == <<"fetch", "store_raw", "parse_and_store", "store_metadata">>
LastStarted == started[Len(started)]

\* C18: the activities are called in the order fetch, store_raw,
\* parse_and_store, store_metadata, each at most once; an activity is
\* called only when the one before it has returned, and store_metadata
\* only when the batch of parse_and_store has returned.
C18_StepOrder ==
    /\ Len(started) <= Len(StepOrder)
    /\ \A k \in 1..Len(started) : started[k] = StepOrder[k]
    /\ Len(started) >= 2 => fetch_resp # "none"
    /\ Len(started) >= 3 =>
          /\ phase \notin {"fetch", "store_raw"}
          /\ Len(started) = 3 => sync_st = "idle"
    /\ Len(started) = 4 => batch_pc = "returned"
    /\ sync_st # "idle" =>
          /\ LastStarted \in {"store_raw", "store_metadata"}
          /\ batch_pc \in {"unparsed", "returned"}
    /\ batch_pc \in {"idle", "gather"} => LastStarted = "parse_and_store"

\* C18 witness: a run that went through the four steps and stored a record.
C18_Witness ==
    /\ started = StepOrder
    /\ phase = "finished"
    /\ orch_result.status = "success"
    /\ Len(returned) >= 1

\* -------------------------------------------------- normalizer claims
Parsed == batch_pc # "unparsed"
Entries == rss_content.entries

\* what the guid or the link gives, stated on the positions of the marker
EndsAfterMarker(s, marker) == s # <<>> /\ s[Len(s)] = marker
Usable(s, marker) == Contains(s, marker) /\ ~EndsAfterMarker(s, marker)
AfterLast(s, marker) ==
    LET p == CHOOSE k \in 1..Len(s) :
                 s[k] = marker /\ \A j \in (k + 1)..Len(s) : s[j] # marker
    IN  Text(SubSeq(s, p + 1, Len(s)))
HasDerivableIdentifier(e) == Usable(e.guid, GuidMarker) \/ Usable(e.link, LinkMarker)

\* the record made from entry k, found by its title
HasRecord(k) ==
    \E r \in Records : articles_data[r][1].title = Entries[k].title
IdentifierOf(k) ==
    articles_data[CHOOSE r \in Records :
                      articles_data[r][1].title = Entries[k].title][2]
PositionOf(r) ==
    CHOOSE k \in DOMAIN Entries : Entries[k].title = articles_data[r][1].title

\* C17 as stated: a malformed document yields an error and no record, and no
\* upload is started for it.
C17_MalformedYieldsNothing ==
    (Parsed /\ rss_content.malformed) =>
        (articles_data = <<>> /\ batch_pc # "idle")

\* C17 (amended): a document flagged as not well-formed is only logged: no
\* error is reported, one record is made for every entry read from it that
\* has a derivable identifier, and the batch upload is called with them.
C17_MalformedOnlyWarned ==
    (Parsed /\ rss_content.malformed) =>
        /\ batch_pc = "idle"
        /\ Len(articles_data) =
              Cardinality({k \in DOMAIN Entries : HasDerivableIdentifier(Entries[k])})
        /\ \A k \in DOMAIN Entries :
              HasDerivableIdentifier(Entries[k]) => HasRecord(k)

\* C17 witness: a malformed document was parsed and gave a record.
C17_Witness ==
    /\ Parsed /\ rss_content.malformed
    /\ Len(Entries) = 2
    /\ Len(articles_data) = 2

\* the last piece of a link, when it is not a piece that ends the path
\* with a separator
TrailingSegment(link) ==
    IF link = <<>> \/ link[Len(link)] \in {"https://", "https://example.org/", LinkMarker}
    THEN ""
    ELSE link[Len(link)]

\* C19 as stated: namespaced guid and link give the guid's identifier; no
\* usable guid but a link gives the trailing segment of the link; an entry
\* from which neither gives a non-empty value is absent.
C19_PrecedenceTrailingSegment ==
    Parsed => \A k \in DOMAIN Entries :
        LET e == Entries[k]
        IN  /\ (Usable(e.guid, GuidMarker) /\ e.link # <<>>) =>
                  HasRecord(k) /\ IdentifierOf(k) = AfterLast(e.guid, GuidMarker)
            /\ (~Usable(e.guid, GuidMarker) /\ TrailingSegment(e.link) # "") =>
                  HasRecord(k) /\ IdentifierOf(k) = TrailingSegment(e.link)
            /\ (~Usable(e.guid, GuidMarker) /\ TrailingSegment(e.link) = "") =>
                  ~HasRecord(k)

\* C19 (amended): a guid holding the namespace prefix with text after it
\* gives that text, whatever the link; otherwise a link holding the path
\* marker arxiv.org/abs/ with text after it gives that text; otherwise (also
\* for a link without the marker) the entry is absent.
C19_PrecedenceByMarker ==
    Parsed => \A k \in DOMAIN Entries :
        LET e == Entries[k]
        IN  /\ Usable(e.guid, GuidMarker) =>
                  HasRecord(k) /\ IdentifierOf(k) = AfterLast(e.guid, GuidMarker)
            /\ (~Usable(e.guid, GuidMarker) /\ Usable(e.link, LinkMarker)) =>
                  HasRecord(k) /\ IdentifierOf(k) = AfterLast(e.link, LinkMarker)
            /\ (~Usable(e.guid, GuidMarker) /\ ~Usable(e.link, LinkMarker)) =>
                  ~HasRecord(k)

\* C19 witness: the first entry has guid and link and got the guid's
\* identifier, the second has only the link and got the link's.
C19_Witness ==
    /\ Parsed
    /\ Len(Entries) = 2
    /\ Entries[1].guid = <<GuidMarker, "a">>
    /\ Entries[1].link = <<"https://", LinkMarker, "b">>
    /\ Entries[2].guid = <<>>
    /\ Entries[2].link = <<"https://", LinkMarker, "b">>
    /\ Len(articles_data) = 2
    /\ articles_data[1][2] = "a"
    /\ articles_data[2][2] = "b"

\* C20: every record the normalizer hands to the scheduler has a non-empty
\* identifier, the one its metadata carries; an entry without identifier is
\* left out without an error, every other entry still gives its record,
\* and the records are in feed order.
C20_IdentifierNeverEmpty ==
    Parsed =>
        /\ batch_pc = "idle"
        /\ \A r \in Records :
              /\ CanDestructure(articles_data[r])
              /\ articles_data[r][2] # ""
              /\ articles_data[r][1].identifier = articles_data[r][2]
              /\ \E k \in DOMAIN Entries :
                    Entries[k].title = articles_data[r][1].title
        /\ \A r1, r2 \in Records : r1 < r2 => PositionOf(r1) < PositionOf(r2)
        /\ \A k \in DOMAIN Entries :
              HasDerivableIdentifier(Entries[k]) => HasRecord(k)

\* C20 witness: the first entry has a guid that is the prefix alone and a
\* link that ends at the marker, and is left out; the second one is kept.
C20_Witness ==
    /\ Parsed
    /\ Len(Entries) = 2
    /\ Entries[1].guid = <<GuidMarker>>
    /\ Entries[1].link = <<"https://", LinkMarker>>
    /\ Len(articles_data) = 1
    /\ articles_data[1][1].title = TitleOf(2)
    /\ articles_data[1][2] # ""

\* C21: the records the normalizer hands to the scheduler have pairwise
\* distinct identifiers, so no two records of the batch go to the same
\* storage key.
C21_DistinctIdentifiers ==
    Parsed => \A r1, r2 \in Records :
        r1 # r2 =>
            /\ articles_data[r1][2] # articles_data[r2][2]
            /\ ArticleBlobName(category, process_date, articles_data[r1][2])
                  # ArticleBlobName(category, process_date, articles_data[r2][2])

SuccessCount == Cardinality({i \in Records : IsSuccess(results[i])})
SummaryWritten == Stored(MetaBlobName(category, process_date))
TotalArticles == blobs[MetaBlobName(category, process_date)][2].total_articles

\* C22: the total_articles written to the run summary is the number of
\* success outcomes of the batch, which is the number of records the
\* normalizer emitted when every upload succeeded; entries the normalizer
\* dropped are not counted.
C22_SummaryCountsSuccesses ==
    SummaryWritten =>
        /\ TotalArticles = SuccessCount
        /\ (\A i \in Records : IsSuccess(results[i])) =>
              TotalArticles = Len(articles_data)
        /\ TotalArticles <=
              Cardinality({k \in DOMAIN Entries : HasDerivableIdentifier(Entries[k])})

SummaryStarted ==
    \E k \in 1..Len(started) : started[k] = "store_metadata"
SummaryWrites ==
    IF SummaryStarted
    THEN Cardinality({k \in 1..Len(sync_log) : sync_log[k] = <<"write", "ok">>})
    ELSE 0

\* C23: the run summary is computed only after the batch has returned and no
\* upload is pending an outcome any more: from the start of store_metadata
\* on no upload is in flight and the outcomes do not change; and the summary
\* is written at most once (store_metadata is called once and at most one
\* of its writes is applied).
C23_SummaryAfterOutcomes ==
    /\ [](SummaryStarted =>
            /\ batch_pc = "returned"
            /\ InFlightSet = {}
            /\ client = "closed" => \A i \in Records : HasOutcome(i))
    /\ [](/\ Cardinality({k \in 1..Len(started) : started[k] = "store_metadata"}) <= 1
          /\ SummaryWrites <= 1
          /\ SummaryWritten => SummaryWrites = 1)
    /\ [][SummaryStarted => (results' = results /\ returned' = returned)]_vars
    /\ [][SummaryWritten =>
            blobs'[MetaBlobName(category, process_date)]
                = blobs[MetaBlobName(category, process_date)]]_vars

\* C23 witness: the summary was written after two uploads had ended, one in
\* success and one in error.
C23_Witness ==
    /\ SummaryWritten
    /\ phase = "finished"
    /\ Len(articles_data) = 2
    /\ \E i, j \in Records : IsSuccess(results[i]) /\ IsError(results[j])
    /\ TotalArticles = 1

BatchEndedNormally == batch_pc = "returned" /\ client = "closed"
SemaphoreBuilt ==
    \/ batch_pc = "gather"
    \/ batch_pc = "returned" /\ client \in {"closed", "close_failed"}

\* C29: every element of the list the batch returns is a success outcome
\* with a storage url, no record whose upload ended in error is in it, and
\* its length is the number of successful uploads.
C29_ReturnsSuccessesOnly ==
    batch_pc = "returned" =>
        /\ \A k \in 1..Len(returned) :
              IsSuccess(returned[k]) /\ returned[k].url # EmptyStr
        /\ \A i \in Records : IsError(results[i]) =>
              \A k \in 1..Len(returned) : returned[k] # results[i]
        /\ Len(returned) = SuccessCount

\* C30: while the semaphore of a batch exists, permits available plus
\* records in flight is max_concurrency; a record that ends in error gives
\* its permit back, so that once every record has ended all max_concurrency
\* permits are available.
C30_PermitConservation ==
    SemaphoreBuilt =>
        /\ permits + Cardinality(InFlightSet) = max_concurrency
        /\ permits >= 0
        /\ GatherDone => permits = max_concurrency

\* C30 witness: the batch ended with an upload in error and an upload in
\* success, more records than permits, and every permit is back.
C30_Witness ==
    /\ BatchEndedNormally
    /\ max_concurrency >= 1
    /\ Len(articles_data) > max_concurrency
    /\ \E i, j \in Records : IsError(results[i]) /\ IsSuccess(results[j])
    /\ permits = max_concurrency

EntryOf(r) == Entries[PositionOf(r)]
\* the names of authors from position k on, joined by ", "
RECURSIVE NamesFrom(_, _)
NamesFrom(authors, k) ==
    IF k > Len(authors) THEN ""
    ELSE LET rest == NamesFrom(authors, k + 1)
         IN  IF authors[k].name = "" THEN rest
             ELSE IF rest = "" THEN authors[k].name
             ELSE authors[k].name \o ", " \o rest

\* C27: the creator of a record is the author field of its entry when that
\* is non-empty; otherwise the names of the author list joined by ", ",
\* authors without name skipped, when there is at least one name; otherwise
\* null.
C27_AuthorPrecedence ==
    Parsed => \A r \in Records :
        LET e == EntryOf(r)
            creator == articles_data[r][1].creator
        IN  /\ e.author # "" => creator = e.author
            /\ (e.author = "" /\ NamesFrom(e.authors, 1) # "") =>
                  creator = NamesFrom(e.authors, 1)
            /\ (e.author = "" /\ NamesFrom(e.authors, 1) = "") =>
                  creator = NoneValue

\* C27 witness: an entry without author field and with three authors, one
\* of them without name, gave the two names joined.
C27_Witness ==
    /\ Parsed
    /\ \E r \in Records :
          /\ EntryOf(r).author = ""
          /\ Len(EntryOf(r).authors) = 3
          /\ articles_data[r][1].creator = "Bo, Cy"

SixFields == {"identifier", "title", "link", "description", "creator", "doi"}
IsArticleBlob(k) ==
    /\ k # RawBlobName(category, process_date)
    /\ k # MetaBlobName(category, process_date)

\* C28: every article object in storage carries the six fields identifier,
\* title, link, description, creator and doi; a field without value is there
\* as "" or null; an object is the encoding of the metadata of a record of
\* the run (or what an earlier run left), whose fields are those of the
\* entry.
C28_AllFieldsStored ==
    /\ \A k \in DOMAIN blobs : IsArticleBlob(k) =>
          /\ blobs[k][1] = "json"
          /\ SixFields \subseteq DOMAIN blobs[k][2]
    /\ \A k \in DOMAIN blobs : IsArticleBlob(k) =>
          \/ blobs[k] = EarlierContent
          \/ \E i \in Records :
                /\ IsSuccess(results[i])
                /\ k = RecordBlobName(i)
                /\ blobs[k] = JsonDumps(articles_data[i][1])
    /\ \A i \in Records :
          LET m == JsonDumps(articles_data[i][1])[2]
              e == EntryOf(i)
          IN  /\ SixFields \subseteq DOMAIN m
              /\ m.identifier = articles_data[i][2]
              /\ m.title = e.title
              /\ m.link = Text(e.link)
              /\ e.description = "" /\ e.summary = "" => m.description = ""
              /\ e.author = "" /\ e.authors = <<>> => m.creator = NoneValue
              /\ e.arxiv_doi = "" /\ e.doi = "" => m.doi = NoneValue
              /\ e.arxiv_doi # "" => m.doi = e.arxiv_doi
              /\ e.description # "" => m.description = e.description

\* C28 witness: a run stored a record that has every field and a record
\* whose link and description are empty and whose creator and doi are null.
C28_Witness ==
    /\ phase = "finished"
    /\ \E k1, k2 \in DOMAIN blobs :
          /\ IsArticleBlob(k1) /\ IsArticleBlob(k2)
          /\ blobs[k1][2].creator = "Ann" /\ blobs[k1][2].doi = "10.1/x"
          /\ blobs[k1][2].description = "abs"
          /\ blobs[k2][2].creator = NoneValue /\ blobs[k2][2].doi = NoneValue
          /\ blobs[k2][2].description = "" 
          /\ blobs[k2][2].title # "earlier"

\* ------------------------------------------------- the HTTP endpoints
Handled(endpoint) == http_pc = "idle" /\ request.endpoint = endpoint
StartCallsOf(id) ==
    { k \in DOMAIN start_calls : start_calls[k].request = id }
OrchestrationsOf(id) ==
    { k \in StartCallsOf(id) : start_calls[k].started }
\* the body carries no ProcessDate value: the key is absent or its value
\* is empty
LacksProcessDate(req_body) == DictGet(req_body, "ProcessDate", "") = ""
SuppliedCategory(req_body) ==
    IF "category" \in DOMAIN req_body THEN req_body["category"] ELSE "cs"
ExpectedInput(req_body) ==
    [category |-> SuppliedCategory(req_body),
     process_date |-> req_body["ProcessDate"]]

\* C24 as stated: a trigger request whose body lacks a ProcessDate value is
\* answered 400 with status "error" and starts no orchestration; one whose
\* body has a ProcessDate starts exactly one orchestration, with the
\* supplied category or "cs".
C24_TriggerAsClaimed ==
    Handled("trigger") =>
        IF LacksProcessDate(request.json)
        THEN /\ response.status_code = 400
             /\ response.status = "error"
             /\ OrchestrationsOf(request.id) = {}
        ELSE /\ Cardinality(OrchestrationsOf(request.id)) = 1
             /\ \A k \in OrchestrationsOf(request.id) :
                   start_calls[k].client_input = ExpectedInput(request.json)

\* C24 amended: a JSON-object body lacking a ProcessDate value is answered
\* 400 with status "error" and start_new is not called; a body with a
\* ProcessDate makes exactly one start_new call for arxiv_orchestrator with
\* the supplied category or "cs", answered by the check-status response when
\* the orchestration was started and by 500 with status "error" when the
\* call failed; a body that is no JSON is answered 500 without any call.
C24_TriggerStartsOnce ==
    Handled("trigger") =>
        IF ~request.valid
        THEN /\ response.status_code = 500
             /\ response.status = "error"
             /\ StartCallsOf(request.id) = {}
        ELSE IF LacksProcessDate(request.json)
        THEN /\ response.status_code = 400
             /\ response.status = "error"
             /\ StartCallsOf(request.id) = {}
        ELSE /\ Cardinality(StartCallsOf(request.id)) = 1
             /\ \A k \in StartCallsOf(request.id) :
                   /\ start_calls[k].orchestrator = "arxiv_orchestrator"
                   /\ start_calls[k].client_input = ExpectedInput(request.json)
                   /\ IF start_calls[k].started
                      THEN response = CheckStatusResponse(k)
                      ELSE /\ response.status_code = 500
                           /\ response.status = "error"
\* a second request, sent with a ProcessDate and without category, has
\* started an orchestration for "cs"; an earlier request named "math"
C24_Witness ==
    /\ Handled("trigger")
    /\ request.id = 2
    /\ request.valid
    /\ DOMAIN request.json = {"ProcessDate"}
    /\ \E k \in OrchestrationsOf(2) : start_calls[k].client_input.category = "cs"
    /\ \E k \in OrchestrationsOf(1) : start_calls[k].client_input.category = "math"

ModelCallsIn(id) ==
    { k \in DOMAIN model_calls : model_calls[k].request = id }
FileUrlOf(req_body) == DictGet(req_body, "file_url", EmptyStr)
\* the URL names a blob of the container that holds a JSON document
StoredJson(file_url) ==
    /\ Len(file_url) = 2
    /\ file_url[1] = container_name
    /\ file_url[2] \in DOMAIN blobs
    /\ blobs[file_url[2]][1] = "json"
StoredRecord(file_url) == blobs[file_url[2]][2]
HasDescription(record) ==
    "description" \in DOMAIN record /\ record["description"] # ""
\* the model call of the request failed, gave no text or gave blanks only
ModelGaveNoText(id) ==
    \/ ModelCallsIn(id) = {}
    \/ \E k \in ModelCallsIn(id) :
          \/ model_calls[k].outcome # "content"
          \/ \A j \in DOMAIN model_calls[k].content :
                model_calls[k].content[j] = " "

\* the answer the claim gives for a request with a JSON body
SimplifyAnswerAsClaimed ==
    LET file_url == FileUrlOf(request.json)
    IN  IF file_url = EmptyStr
        THEN response.status_code = 400
        ELSE IF ~StoredJson(file_url) \/ article_metadata = NoMetadata
        THEN response.status_code = 404
        ELSE IF ~HasDescription(StoredRecord(file_url))
        THEN response.status_code = 400
        ELSE IF ModelGaveNoText(request.id)
        THEN response.status_code = 500
        ELSE /\ response.status_code = 200
             /\ response.article_metadata = StoredRecord(file_url)
             /\ \E k \in ModelCallsIn(request.id) :
                   response.simplified_description =
                       Strip(model_calls[k].content)

\* C25: the simplification endpoint answers 400 when the request body is
\* missing, when file_url is missing, or when the stored record has no
\* description; 404 when the referenced object cannot be read; 500 when the
\* model call fails or returns empty text; 200 with simplified_description
\* and article_metadata otherwise.
C25_SimplifyStatusCodes ==
    Handled("simplify") =>
        IF ~request.valid
        THEN response.status_code = 400
        ELSE SimplifyAnswerAsClaimed

\* C26: within one simplification request the model is invoked at most
\* once; when the call fails or yields no text the request is answered by
\* one failure response and the call is not made again.
C26_ModelCalledOnce ==
    /\ \A id \in 1..MaxRequests : Cardinality(ModelCallsIn(id)) <= 1
    /\ \A k \in DOMAIN model_calls :
          /\ model_calls[k].request <= request.id
          /\ k > 1 => model_calls[k - 1].request < model_calls[k].request
    /\ Handled("simplify") /\ ModelCallsIn(request.id) # {}
          /\ ModelGaveNoText(request.id)
       => /\ response.status_code = 500
          /\ response.status = "error"
\* the model call of a request raised and the request was answered 500
C26_Witness ==
    /\ Handled("simplify")
    /\ \E k \in ModelCallsIn(request.id) : model_calls[k].outcome = "raises"
    /\ response.status_code = 500

\* ------------------------------------------------- non-positive limits
NothingAttempted ==
    \A i \in Records :
        st[i] = "pending" /\ entered[i] = 0 /\ put_calls[i] = 0 /\ log[i] = <<>>
BatchReturned == batch_pc = "returned"

\* C31 as stated: with max_concurrency = 0 and at least one record no
\* record ever leaves pending and the batch call never returns; with a
\* negative max_concurrency the call returns the empty list without
\* attempting any upload.
C31_NonPositiveAsClaimed ==
    /\ max_concurrency = 0 /\ Len(articles_data) >= 1
          => NothingAttempted /\ ~BatchReturned
    /\ max_concurrency < 0 /\ BatchReturned
          => returned = <<>> /\ NothingAttempted

\* C31 amended: with max_concurrency = 0 and at least one record no record
\* ever leaves pending, and the batch call returns only when the storage
\* client could not be acquired, and then the empty list; once the client
\* is acquired the call never returns.  With a negative max_concurrency the
\* call returns the empty list without attempting any upload.
C31_NonPositiveLimits ==
    /\ max_concurrency = 0 /\ Len(articles_data) >= 1
          => /\ NothingAttempted
             /\ client # "none" => ~BatchReturned
             /\ BatchReturned => returned = <<>>
    /\ max_concurrency < 0
          => /\ NothingAttempted
             /\ batch_pc \in {"idle", "returned"}
             /\ BatchReturned => returned = <<>>
\* the batch waits in gather with no permit to hand out
C31_Witness ==
    /\ max_concurrency = 0
    /\ Len(articles_data) >= 1
    /\ batch_pc = "gather"
    /\ client = "open"
    /\ permits = 0

\* ---------------------------------------------------- the batch's client
ClientFailed == BatchReturned /\ client = "none"
AllUploadsFailed ==
    /\ Len(articles_data) >= 1
    /\ \A i \in Records : Terminal(i) /\ IsError(results[i])
ArticleBlobs == { k \in DOMAIN blobs : IsArticleBlob(k) }

\* C32: when acquiring the storage client fails, the batch call returns
\* the empty list, no record has left pending and no write was attempted;
\* that is the list a batch whose uploads all failed returns too.
C32_ClientFailureReturnsEmpty ==
    /\ ClientFailed
          => /\ returned = <<>>
             /\ NothingAttempted
             /\ \A k \in ArticleBlobs : blobs[k] = EarlierContent
    /\ BatchReturned /\ AllUploadsFailed => returned = <<>>
\* both cases: here the client could not be acquired for a list of two
\* records
C32_Witness ==
    /\ ClientFailed
    /\ Len(articles_data) = 2
    /\ returned = <<>>

ClientClosed == client \in {"closed", "close_failed"}
\* C33: the batch's client is closed only when every record has reached a
\* terminal outcome, never while an upload is pending or in flight, and
\* close is called at most once.
C33_ClosedAfterAllTerminal ==
    /\ [](ClientClosed => \A i \in Records : Terminal(i))
    /\ [][ClientClosed => client' = client]_vars
    /\ [][client' # client /\ client' \in {"closed", "close_failed"}
             => client = "open" /\ \A i \in Records : Terminal(i)]_vars
\* the client was closed after three records had ended, one of them in
\* error
C33_Witness ==
    /\ client = "closed"
    /\ Len(articles_data) = 3
    /\ \E i \in Records : IsError(results[i])
    /\ \E i \in Records : IsSuccess(results[i])

\* --------------------------------------------- the run after the fetch
FetchSucceeded == phase # "fetch" /\ ~FetchFailed(rss_content)
RunFinished == phase = "finished"

\* C34: once the fetch has returned non-empty content the orchestrator
\* calls store_raw, parse_and_store and store_metadata each exactly once
\* and returns a result with status "success" that carries what the
\* activities returned, an empty raw_storage_url, articles_stored 0 or an
\* empty metadata_url included.
C34_SuccessDespiteFailures ==
    /\ [](FetchSucceeded /\ RunFinished
            => /\ started = StepOrder
               /\ orch_result.status = "success"
               /\ orch_result.raw_storage_url = raw_storage_url
               /\ orch_result.articles_stored = Len(returned)
               /\ orch_result.metadata_url = metadata_url)
    /\ [](FetchSucceeded /\ ~RunFinished => orch_result = NoResult)
    /\ (FetchSucceeded ~> (RunFinished /\ orch_result.status = "success"))
\* a run reported as success although store_raw failed, the upload of its
\* one record failed and the summary write failed
C34_Witness ==
    /\ RunFinished
    /\ orch_result.status = "success"
    /\ orch_result.raw_storage_url = EmptyStr
    /\ Len(articles_data) = 1
    /\ orch_result.articles_stored = 0
    /\ orch_result.metadata_url = EmptyStr

\* -------------------------------------------- stored objects and outcomes
\* nothing of an earlier run is left under the prefix
NoEarlierArticles == \A k \in ArticleBlobs : blobs[k] # EarlierContent

\* C35: after a batch into a prefix that held no article objects, the
\* number of article objects under the prefix is the number of success
\* outcomes the batch returned, and the total_articles of the summary.
C35_ObjectsMatchSuccesses ==
    BatchReturned /\ NoEarlierArticles
        => /\ Cardinality(ArticleBlobs) = Len(returned)
           /\ SummaryWritten => TotalArticles = Cardinality(ArticleBlobs)

\* ------------------------------------------------ order of the outcomes
\* sub[k..] can be read off seq[i..] from left to right
RECURSIVE IsSubsequenceFrom(_, _, _, _)
IsSubsequenceFrom(sub, k, seq, i) ==
    IF k > Len(sub) THEN TRUE
    ELSE IF i > Len(seq) THEN FALSE
    ELSE \/ sub[k] = seq[i] /\ IsSubsequenceFrom(sub, k + 1, seq, i + 1)
         \/ IsSubsequenceFrom(sub, k, seq, i + 1)
InputIdentifiers ==
    [i \in Records |->
        IF CanDestructure(articles_data[i]) THEN articles_data[i][2]
        ELSE "unknown"]
ReturnedIdentifiers == [k \in 1..Len(returned) |-> returned[k].identifier]

\* C36: the outcomes the batch returns stand in the order of their records
\* in the input list, whatever the order in which the uploads ended: the
\* returned identifiers are a subsequence of the input's identifiers, and
\* the returned list is a subsequence of the per-record results.
C36_ReturnedInInputOrder ==
    BatchReturned =>
        /\ IsSubsequenceFrom(ReturnedIdentifiers, 1, InputIdentifiers, 1)
        /\ IsSubsequenceFrom(returned, 1, results, 1)
\* three records, the first for "b", the last for "a", the one between
\* them failed: the batch returned the outcomes of "b" and "a" in that order
C36_Witness ==
    /\ BatchReturned
    /\ Len(articles_data) = 3
    /\ IsError(results[2])
    /\ Len(returned) = 2
    /\ returned[1].identifier = "b"
    /\ returned[2].identifier = "a"

\* ------------------------------------- steps of the simplify endpoint
FileUrlGiven(req) ==
    /\ req.endpoint = "simplify"
    /\ req.valid
    /\ ~FalsySeq(FileUrlOf(req.json))
RecordRead(metadata) == metadata # NoMetadata /\ HasDescription(metadata)

\* C37: the simplify endpoint validates the body and file_url, reads the
\* stored record, validates its description and calls the model, in that
\* order, and stops at the first failure: read_article_metadata_from_url is
\* called only for a request with a file_url, the model is called only
\* after the record was read and has a non-empty description, and nothing
\* follows a response.
C37_StepsInOrder ==
    /\ [](http_pc \in {"read", "model"} => FileUrlGiven(request))
    /\ [](http_pc = "model" => RecordRead(article_metadata))
    /\ [](http_pc # "idle" => response = NoResponse)
    /\ [][http_pc' = "read" => http_pc = "idle" /\ FileUrlGiven(request')]_vars
    /\ [][http_pc' = "model"
             => http_pc = "read" /\ RecordRead(article_metadata')]_vars
    /\ [][article_metadata' # article_metadata /\ article_metadata' # NoMetadata
             => http_pc = "read" /\ FileUrlGiven(request)]_vars
    /\ [][model_calls' # model_calls
             => /\ http_pc = "model"
                /\ RecordRead(article_metadata)
                /\ Len(model_calls') = Len(model_calls) + 1
                /\ http_pc' = "idle"]_vars
\* a request went through all five steps and was answered 200
C37_Witness ==
    /\ Handled("simplify")
    /\ response.status_code = 200
    /\ RecordRead(article_metadata)
    /\ \E k \in ModelCallsIn(request.id) : model_calls[k].outcome = "content"

\* ------------------------------------------- the monolith's second copy
CallsOf(l) == [k \in 1..Len(l) |-> l[k][1]]
ResponsesOf(l) == [k \in 1..Len(l) |-> l[k][2]]
AppBatch ==
    AppBatchUploadArticlesAsync(articles_data, category, process_date,
        max_concurrency, client # "none", client = "closed",
        [i \in Records |-> ResponsesOf(log[i])])
SyncPutEnded == sync_st = "idle" /\ sync_log # <<>>
AppSyncPut ==
    AppUploadBlobWithContainerCreation(SyncContainer, SyncBlobName,
                                       ResponsesOf(sync_log))

\* C38: for the same records and the same backend responses the scheduler
\* and the gateways of function_app.py do what those of batch_upload.py and
\* storage_utils.py do: the batch returns the same list after the same
\* calls of every record's put (and does not return where the other does
\* not), the synchronous put makes the same calls and hands back the same
\* location, and the synchronous and the asynchronous gateway agree on
\* every sequence of responses that was met.
C38_MonolithEquivalent ==
    /\ BatchReturned
          => LET app == AppBatch
             IN  /\ app.returns
                 /\ returned = app.returned
                 /\ [i \in Records |-> CallsOf(log[i])] = app.calls
                 /\ client \in {"closed", "close_failed"} => results = app.results
                 /\ \A i \in Records :
                       log[i] # <<>>
                       => AppUploadBlobAsync(container_name, RecordBlobName(i),
                                             ResponsesOf(log[i]))
                            = AppUploadBlobWithContainerCreation(container_name,
                                  RecordBlobName(i), ResponsesOf(log[i]))
    /\ SyncPutEnded
          => /\ CallsOf(sync_log) = AppSyncPut.calls
             /\ metadata_url = AppSyncPut.url
             /\ AppUploadBlobAsync(SyncContainer, SyncBlobName,
                                   ResponsesOf(sync_log)) = AppSyncPut
\* a finished run: one record was stored after its put created the
\* container, another failed, and the summary was written
C38_Witness ==
    /\ BatchReturned
    /\ client = "closed"
    /\ \E i \in Records :
          CallsOf(log[i]) = <<"write", "create", "write">> /\ IsSuccess(results[i])
    /\ \E i \in Records : IsError(results[i])
    /\ SyncPutEnded
    /\ metadata_url # EmptyStr
====
